---- MODULE Spec2Model ----
(***************************************************************************)
(* Model of the Upwind Go SDK.                                             *)
(*                                                                         *)
(* The request engine (sdk/client.go): Client.getToken and                 *)
(* Client.doRequest, called by one or several goroutines that share one    *)
(* Client, with a context the caller may cancel.                           *)
(*                                                                         *)
(* The streaming lists (sdk/configuration_findings.go, sdk/api_security.go)*)
(* with their producer goroutine, the two channels, and the consumers:     *)
(* the documented range loop and CollectAll.                               *)
(*                                                                         *)
(* The offset-mode listing ListThreatEvents.                               *)
(*                                                                         *)
(* Durations are in milliseconds, wall-clock time in seconds.              *)
(***************************************************************************)
EXTENDS Integers, Naturals, Sequences, FiniteSets, TLC

\* ------------------------------------------------------------------ bounds
MaxRetriesBound == 3      \* largest c.config.MaxRetries of the one-caller runs
NumCallers == 2           \* goroutines of the concurrent runs
ConcRetriesBound == 1     \* largest c.config.MaxRetries of the concurrent runs
MaxTicks == 1             \* how many times the wall clock advances
CtxRetriesBound == 2      \* largest c.config.MaxRetries of the cancellable runs
MaxPages == 3             \* longest page sequence with pages of any size
MaxPageItems == 2         \* most items in one of those pages
LongRunPages == 5         \* length of the run of one-item pages
MaxChunkSize == 3         \* largest chunkSize handed to the chunk helpers
MaxEvents == 6            \* most threat events the server holds
MaxPerPage == 3           \* largest page size of a threat events query
MaxStartPage == 2         \* largest query.Page of a threat events query
MaxRefreshes == 2         \* how many times RefreshHTTPClient is called
PostRetriesBound == 2     \* largest c.config.MaxRetries of the POST runs
MaxCursorPages == 2       \* most page requests of a cursor run
MaxFairPages == 2         \* longest page sequence of the scheduled runs
MaxFairPageItems == 1     \* most items in one of those pages

\* ------------------------------------------------------- program constants
InitialBackoff == 100             \* backoff := 100 * time.Millisecond
TokenBuffer == 60                 \* 60*time.Second buffer of getToken
ExpiryDelta == 10                 \* oauth2 Token.Valid(): 10 s expiry delta
StatusOK == 200                   \* http.StatusOK
StatusUnauthorized == 401         \* http.StatusUnauthorized
StatusCreated == 201              \* http.StatusCreated
StatusNotFound == 404             \* http.StatusNotFound
StatusTooManyRequests == 429      \* http.StatusTooManyRequests
ServerErrorFloor == 500           \* resp.StatusCode >= 500
TransportError == 0               \* httpClient.Do returned err != nil
ItemChanCap == 100                \* make(chan ConfigurationFinding, 100)
ErrChanCap == 1                   \* make(chan error, 1)
ChunksChanCap == 10               \* make(chan []T, 10)
PageSizeLimit == 10000            \* c.PageSize > 10000

\* ------------------------------------------------------------ environment
ClockStep == TokenBuffer          \* seconds the clock advances per Tick
\* expires_in values of the token endpoint, seconds; 0: none sent, and the
\* token's Expiry is the zero Time
Lifetimes == {0, 30, 120}
Statuses == {StatusOK, StatusNotFound, StatusUnauthorized,
             StatusTooManyRequests, ServerErrorFloor, 503}
\* Retry-After header values, as sequences of characters (<<>>: no header)
RetryAfterHeaders == {<< >>, <<"2">>, <<"1", "0">>, <<"W", "e", "d">>}

Callers == 1..NumCallers
NoToken == [id |-> 0, expiry |-> 0]       \* c.token == nil
NoResult == [resp |-> -1, err |-> "none"] \* doRequest has not returned
NoResponse == [status |-> -1, retryAfter |-> << >>]  \* no resp in scope
NoClient == 0 - 1                         \* no transport captured

\* DefaultConfig(): the fields that Validate or the model reads
DefaultConfig ==
    [ClientID |-> "", ClientSecret |-> "", OrganizationID |-> "",
     Region |-> "US", BaseURL |-> "", TokenURL |-> "", MaxRetries |-> 3,
     MaxConcurrency |-> 10, PageSize |-> 100, ConnectionRefreshPages |-> 100]

\* extractNextLink has not returned
NoLink == [url |-> <<"pending">>, err |-> "pending"]

\* no cursor pagination is running
NoCursor ==
    [pc |-> "idle", pageToken |-> << >>, requests |-> << >>,
     responses |-> << >>]

\* http.NewRequestWithContext(ctx, "GET", urlPath, nil)
GetRequest == [method |-> "GET", header |-> {}, body |-> "nil"]

\* the request of CreateWorkflow: http.NewRequestWithContext(ctx, "POST",
\* urlPath, bytes.NewReader(body)) and Content-Type set; the body reader has
\* not been read
PostRequest == [method |-> "POST", header |-> {"Content-Type"}, body |-> "unread"]

\* the getters of the Config have not been called
NoEndpoints == [baseURL |-> "", tokenURL |-> "", audience |-> ""]

NoEvents == [events |-> << >>, err |-> "none"]  \* ListThreatEvents not back

VARIABLES
    MaxRetries,     \* c.config.MaxRetries
    server,         \* what the remote side can answer in this run:
                    \* [statuses: HTTP outcomes, lifetimes: expires_in]
    active,         \* the goroutines that call doRequest
    now,            \* wall clock, seconds
    token,          \* c.token
    tokenMu,        \* c.tokenMu: 0 unlocked, else the caller holding it
    exchanges,      \* calls made to the token endpoint so far
    pc,             \* position of each caller in doRequest
    attempt,        \* loop variable attempt
    backoff,        \* local backoff, ms
    lastErr,        \* local lastErr: "nil" or "request failed[: context canceled]"
    tok,            \* token returned by the attempt's getToken
    resp,           \* response of the attempt: [status, retryAfter]
    waitDuration,   \* duration handed to time.Sleep
    result,         \* what doRequest returned
    hist,           \* outcomes of the HTTP attempts of the call, in order
    sleeps,         \* durations slept by the call, in order
    tokenCalls,     \* token endpoint calls of the caller's last getToken
    invalidations,  \* 401 invalidations done by the call
    tokErr,         \* err of the attempt's getToken: "nil" or "failed"
    cleared,        \* the token removed by a 401 invalidation that no
                    \* completed getToken has followed yet
    ctxDone,        \* the caller's ctx is cancelled (ctx.Done() is closed)
    cause,          \* what the returned error wraps (%w): "none",
                    \* "canceled" (ctx.Err()) or "other"
    wire            \* HTTP requests of the call that left for the server

\* a streaming list (ListConfigurationFindings, ListApiEndpoints) and its
\* consumer
VARIABLES
    pages,            \* the server's pages: the items of each page, in order
    consumer,         \* how the caller consumes: "range", "CollectAll", "none"
    prodPc,           \* position of the producer goroutine
    pageToken,        \* local pageToken (0: "", the first page)
    findings,         \* items of the fetched page not yet sent
    nextToken,        \* nextToken of the fetched page (0: "")
    findingsCh,       \* buffer of the item channel
    findingsChClosed, \* close(findingsCh) has run
    errCh,            \* buffer of the error channel
    errChClosed,      \* close(errCh) has run
    consPc,           \* position of the consumer
    results,          \* items the consumer has received, in order
    consErr,          \* error the consumer ended with ("pending", "nil", ...)
    pageRequests,     \* page tokens passed to the page function, in order
    served,           \* pages whose HTTP request left for the server
    errPosts          \* errors sent on errCh, in order

\* the chunk helpers CollectInChunks and StreamInChunks
VARIABLES
    chunkSize,        \* argument chunkSize
    chunk,            \* local chunk
    chunks,           \* batches delivered so far, in order: to processChunk,
                      \* or to the consumer that ranges over chunksCh
    handled,          \* what processChunk returned for each batch
    chunksCh,         \* buffer of the batch channel of StreamInChunks
    chunksChClosed,   \* close(chunksCh) has run
    stagePc           \* position of the goroutine of StreamInChunks

\* a call of ListThreatEvents
VARIABLES
    serverEvents,   \* number of threat events the server holds
    pageSize,       \* c.config.PageSize
    queryPage,      \* query.Page
    perPage,        \* query.PerPage
    page,           \* local page
    allEvents,      \* local allEvents
    tePc,           \* position in ListThreatEvents
    teRequests,     \* pages requested from the server, in order
    teResult        \* what ListThreatEvents returned

\* the transport of the client and its lock
VARIABLES
    clientMu,       \* c.clientMu: "unlocked", or "RefreshHTTPClient" while
                    \* a refresh holds it
    httpClient,     \* c.httpClient: the number of the transport instance
    captured,       \* local httpClient of the attempt (-1: none)
    via,            \* transport instance each HTTP attempt of the call went
                    \* through, in order
    pageVia         \* transport instance each served page request of the
                    \* streaming list went through, in order

\* the configuration
VARIABLES
    MaxConcurrency,         \* c.config.MaxConcurrency
    ConnectionRefreshPages, \* c.config.ConnectionRefreshPages
    candidate,              \* the Config that Validate is called on
    validateErr,            \* what Validate returned ("pending" before)
    endpoints               \* what GetBaseURL, GetTokenURL and GetAudience
                            \* returned for the Config (NoEndpoints before)

\* a call of extractNextLink
VARIABLES
    links,          \* the links the server put into the Link header, in order
    linkHeader,     \* the header value, as a sequence of lexical units
    nextLink,       \* what extractNextLink returned (NoLink before)
    cursor          \* a cursor pagination: the position and the pageToken of
                    \* the producer loop, the page-token the server found in
                    \* each request and the Link header it put into each
                    \* response, in order

\* the request descriptor handed to doRequest
VARIABLES
    req,            \* the caller's *http.Request: method, header names and
                    \* the state of the Body reader
    clones          \* the reqClone handed to httpClient.Do by each attempt of
                    \* the call, in order

clientVars == <<MaxRetries, server, active, now, token, tokenMu, exchanges, pc,
                attempt, backoff, lastErr, tok, resp, waitDuration, result,
                hist, sleeps, tokenCalls, invalidations, tokErr, cleared,
                cause, wire>>

chunkVars == <<chunkSize, chunk, chunks, handled, chunksCh, chunksChClosed,
               stagePc>>

streamVars == <<chunkVars, pages, consumer, prodPc, pageToken, findings, nextToken,
                findingsCh, findingsChClosed, errCh, errChClosed, consPc,
                results, consErr, pageRequests, served, errPosts>>

offsetVars == <<serverEvents, pageSize, queryPage, perPage, page, allEvents,
                tePc, teRequests, teResult>>

transportVars == <<clientMu, httpClient, captured, via, pageVia>>

configVars == <<MaxConcurrency, ConnectionRefreshPages, candidate, validateErr,
                endpoints>>

linkVars == <<links, linkHeader, nextLink, cursor>>

requestVars == <<req, clones>>

vars == <<clientVars, ctxDone, streamVars, offsetVars, transportVars,
          configVars, linkVars, requestVars>>

\* ------------------------------------------------- time.ParseDuration
Digits == {"0", "1", "2", "3", "4", "5", "6", "7", "8", "9"}

DigitValue(c) ==
    CASE c = "0" -> 0 [] c = "1" -> 1 [] c = "2" -> 2 [] c = "3" -> 3
      [] c = "4" -> 4 [] c = "5" -> 5 [] c = "6" -> 6 [] c = "7" -> 7
      [] c = "8" -> 8 [] c = "9" -> 9

\* the units of time.ParseDuration that are whole milliseconds
UnitMs(u) ==
    CASE u = <<"m", "s">> -> 1
      [] u = <<"s">> -> 1000
      [] u = <<"m">> -> 60000
      [] u = <<"h">> -> 3600000
      [] OTHER -> 0

ParseFailed == [ok |-> FALSE, ms |-> 0]

\* first index >= i of s whose character is (wantDigit) a digit / not a digit
RECURSIVE RunEnd(_, _, _)
RunEnd(s, i, inDigits) ==
    IF i > Len(s) \/ ((s[i] \in Digits) # inDigits) THEN i
    ELSE RunEnd(s, i + 1, inDigits)

RECURSIVE LeadingInt(_, _, _, _)
LeadingInt(s, i, j, v) ==
    IF i >= j THEN v ELSE LeadingInt(s, i + 1, j, 10 * v + DigitValue(s[i]))

\* the loop of time.ParseDuration over the groups <digits><unit>
RECURSIVE ParseGroups(_, _, _)
ParseGroups(s, i, d) ==
    IF i > Len(s) THEN [ok |-> TRUE, ms |-> d]
    ELSE IF s[i] \notin Digits THEN ParseFailed
    ELSE LET j == RunEnd(s, i, TRUE)
             k == RunEnd(s, j, FALSE)
             u == SubSeq(s, j, k - 1)
         IN  IF k = j \/ UnitMs(u) = 0 THEN ParseFailed
             ELSE ParseGroups(s, k, d + LeadingInt(s, i, j, 0) * UnitMs(u))

ParseDuration(s) ==
    IF s = <<"0">> THEN [ok |-> TRUE, ms |-> 0]
    ELSE IF s = << >> THEN ParseFailed
    ELSE ParseGroups(s, 1, 0)

\* ------------------------------------------------------- token cache
\* oauth2.Token.Valid(): non-nil and not expired (a zero Expiry never expires)
IsZero(expiry) == expiry = 0

Valid(t, n) ==
    /\ t # NoToken
    /\ t.id # 0
    /\ (IsZero(t.expiry) \/ ~(t.expiry - ExpiryDelta < n))

\* mutant: the cached token is reused with exactly the buffer remaining
CacheUsableAtBuffer(t, n) ==
    /\ t # NoToken
    /\ Valid(t, n)
    /\ ~IsZero(t.expiry)
    /\ t.expiry - n >= TokenBuffer

\* the condition of getToken for returning the cached token; time.Until of a
\* zero Expiry saturates at the minimum Duration, which is not > 60 s
CacheUsable(t, n) ==
    /\ t # NoToken
    /\ Valid(t, n)
    /\ ~IsZero(t.expiry)
    /\ t.expiry - n > TokenBuffer

\* the token a successful exchange started at time n yields
IssuedToken(n, life) ==
    [id |-> exchanges, expiry |-> IF life = 0 THEN 0 ELSE n + life]

\* ------------------------------------------------- classification
\* the three retry branches of doRequest apply only with attempts remaining
Retry401(status, a) == status = StatusUnauthorized /\ a < MaxRetries
Retry429(status, a) == status = StatusTooManyRequests /\ a < MaxRetries
\* mutant: the 5xx branch retries without looking at the attempts left
Retry5xxAlways(status, a) == status >= ServerErrorFloor

\* mutants: 500 itself is not retried; client errors are retried too
Retry5xxAbove500(status, a) == status > ServerErrorFloor /\ a < MaxRetries
Retry5xxFrom400(status, a) == status >= 400 /\ a < MaxRetries
Retry5xx(status, a) == status >= ServerErrorFloor /\ a < MaxRetries

\* mutant: the header is parsed without the appended unit
RetryAfterWaitNoUnit(retryAfter, b) ==
    IF retryAfter # << >> /\ ParseDuration(retryAfter).ok
    THEN ParseDuration(retryAfter).ms
    ELSE b

\* waitDuration of the 429 branch
RetryAfterWait(retryAfter, b) ==
    IF retryAfter # << >> /\ ParseDuration(retryAfter \o <<"s">>).ok
    THEN ParseDuration(retryAfter \o <<"s">>).ms
    ELSE b

\* mutant: linear backoff
NextBackoffLinear(b) == b + InitialBackoff

\* backoff *= 2
NextBackoff(b) == b * 2

\* attempt++ and the loop condition attempt <= c.config.MaxRetries
NextAttemptStuck(a) == a    \* mutant: the attempt is not counted
NextAttempt(a) == a + 1
LoopCondition(a) == a <= MaxRetries

\* mutant: the 401 branch leaves the cached token in place
tokenKept(t) == t

\* c.token = nil of the 401 branch
tokenAfter401(t) == NoToken

\* mutant: the token is accessed without the lock
tokenMuIgnored == TRUE

\* c.tokenMu.Lock() succeeds
tokenMuFree == tokenMu = 0

\* mutant: a token error is retried like a transport error
OnTokenErrorRetry(a) == IF a < MaxRetries THEN "sleep" ELSE "done"

\* if err != nil { return nil, "token error" }: where doRequest goes
OnTokenError(a) == "done"

Returned(status, err) == [resp |-> status, err |-> err]

\* mutation of OnLimiterErr: the error of Wait is dropped and the call goes on
OnLimiterErrProceed == "getToken"

\* if err := c.rateLimiter.Wait(ctx); err != nil { return nil, ... }
OnLimiterErr == "done"

\* mutation of clientMuFree: the capture does not take c.clientMu
clientMuIgnored == TRUE

\* c.clientMu.Lock() returns only when no refresh holds the lock
clientMuFree == clientMu = "unlocked"

\* the error of an operation that takes ctx and fails: ctx.Err() once the
\* context is cancelled, an error of the operation itself before that
CtxErr == IF ctxDone THEN "canceled" ELSE "other"

\* net/http: Do on a request whose context is already cancelled fails with
\* the context's error before anything is written to the connection
DoOutcomes == IF ctxDone THEN {TransportError} ELSE server.statuses

\* the headers doRequest sets on every clone
CloneHeaders == {"Authorization", "User-Agent", "Accept"}

\* reqClone := req.Clone(ctx) and the three Header.Set: Clone copies the
\* header map and the fields, and shares the Body reader with req
Clone(r) ==
    [method |-> r.method, header |-> r.header \cup CloneHeaders, body |-> r.body]

\* net/http, writing a clone to the connection: a request without body or
\* with an unread body goes out whole. A body that an earlier attempt has
\* read yields no bytes against a ContentLength that is not zero: the write
\* fails before anything is sent, and the transport either returns that
\* error or, on a reused connection, restores the body with GetBody (which
\* NewRequestWithContext sets for a bytes.Reader and Clone copies) and sends
\* the request whole
WrittenWhole(r) == IF r.body = "drained" THEN BOOLEAN ELSE {TRUE}

\* the Body reader that req and its clones share, after Do: read to the end
\* once a response has come back; read or not when Do failed
BodyAfterDo(b, s) ==
    IF b # "unread" THEN {b}
    ELSE IF s # TransportError THEN {"drained"}
    ELSE IF ctxDone THEN {"unread"}
    ELSE {"unread", "drained"}

\* lastErr = fmt.Errorf("request failed: %w", err)
RequestFailed ==
    IF ctxDone THEN "request failed: context canceled" ELSE "request failed"

\* what errors.Is finds at the end of the %w chain of lastErr
Wrapped(e) ==
    IF e = "request failed: context canceled" THEN "canceled"
    ELSE IF e = "nil" THEN "none" ELSE "other"

\* ------------------------------------------------------------ actions
TypeOK ==
    /\ MaxRetries \in Nat
    /\ now \in Nat
    /\ tokenMu \in {0} \cup Callers
    /\ pc \in [Callers -> {"idle", "wait", "slot", "getToken", "exchange",
                           "send", "do", "invalidate", "sleep", "done"}]
    /\ clientMu \in {"unlocked", "RefreshHTTPClient"}
    /\ httpClient \in Nat
    /\ \A p \in Callers : attempt[p] \in Nat /\ backoff[p] \in Nat

InitCommon ==
    /\ now = 0
    /\ token = NoToken
    /\ tokenMu = 0
    /\ exchanges = 0
    /\ pc = [p \in Callers |-> "idle"]
    /\ attempt = [p \in Callers |-> 0]
    /\ backoff = [p \in Callers |-> InitialBackoff]
    /\ lastErr = [p \in Callers |-> "nil"]
    /\ tok = [p \in Callers |-> NoToken]
    /\ resp = [p \in Callers |-> NoResponse]
    /\ waitDuration = [p \in Callers |-> 0]
    /\ result = [p \in Callers |-> NoResult]
    /\ hist = [p \in Callers |-> << >>]
    /\ sleeps = [p \in Callers |-> << >>]
    /\ tokenCalls = [p \in Callers |-> 0]
    /\ invalidations = [p \in Callers |-> 0]
    /\ tokErr = [p \in Callers |-> "nil"]
    /\ cleared = NoToken
    /\ ctxDone = FALSE
    /\ cause = [p \in Callers |-> "none"]
    /\ wire = [p \in Callers |-> 0]
    /\ clientMu = "unlocked"
    /\ httpClient = 0
    /\ captured = [p \in Callers |-> NoClient]
    /\ via = [p \in Callers |-> << >>]
    /\ pageVia = << >>
    /\ validateErr = "pending"
    /\ endpoints = NoEndpoints
    /\ nextLink = NoLink
    /\ cursor = NoCursor
    /\ req = [p \in Callers |-> GetRequest]
    /\ clones = [p \in Callers |-> << >>]

\* extractNextLink is not part of the run
NoLinkHeader ==
    /\ links = << >>
    /\ linkHeader = << >>

\* Validate is not part of the run
NoCandidate == candidate = DefaultConfig

\* the limits of DefaultConfig
DefaultLimits ==
    /\ MaxConcurrency = DefaultConfig.MaxConcurrency
    /\ ConnectionRefreshPages = DefaultConfig.ConnectionRefreshPages

\* the state before the list method is called
StreamIdle ==
    /\ prodPc = "idle"
    /\ pageToken = 0
    /\ findings = << >>
    /\ nextToken = 0
    /\ findingsCh = << >>
    /\ findingsChClosed = FALSE
    /\ errCh = << >>
    /\ errChClosed = FALSE
    /\ consPc = "idle"
    /\ results = << >>
    /\ consErr = "pending"
    /\ pageRequests = << >>
    /\ served = << >>
    /\ errPosts = << >>
    /\ chunk = << >>
    /\ chunks = << >>
    /\ handled = << >>
    /\ chunksCh = << >>
    /\ chunksChClosed = FALSE
    /\ stagePc = "idle"

\* no streaming list is part of the run
NoStream ==
    /\ pages = << >>
    /\ consumer = "none"
    /\ chunkSize = 1
    /\ StreamIdle

\* the state before ListThreatEvents is called
ThreatEventsIdle ==
    /\ page = 0
    /\ allEvents = << >>
    /\ tePc = "idle"
    /\ teRequests = << >>
    /\ teResult = NoEvents

\* ListThreatEvents is not part of the run
NoThreatEvents ==
    /\ serverEvents = 0
    /\ pageSize = 1
    /\ queryPage = 0
    /\ perPage = 0
    /\ ThreatEventsIdle

\* one goroutine calls doRequest; the server can answer anything
Init ==
    /\ InitCommon
    /\ NoLinkHeader
    /\ NoCandidate
    /\ DefaultLimits
    /\ NoStream
    /\ NoThreatEvents
    /\ MaxRetries \in 0..MaxRetriesBound
    /\ server = [statuses |-> Statuses \cup {TransportError},
                 lifetimes |-> Lifetimes]
    /\ active = {1}

\* several goroutines call doRequest on the same client
InitConc ==
    /\ InitCommon
    /\ NoLinkHeader
    /\ NoCandidate
    /\ MaxConcurrency \in {1, NumCallers}
    /\ ConnectionRefreshPages = DefaultConfig.ConnectionRefreshPages
    /\ NoStream
    /\ NoThreatEvents
    /\ MaxRetries \in 0..ConcRetriesBound
    /\ server = [statuses |-> {StatusOK, StatusUnauthorized},
                 lifetimes |-> {120}]
    /\ active = Callers

\* one goroutine calls doRequest with a context that can be cancelled
InitCtx ==
    /\ InitCommon
    /\ NoLinkHeader
    /\ NoCandidate
    /\ DefaultLimits
    /\ NoStream
    /\ NoThreatEvents
    /\ MaxRetries \in 0..CtxRetriesBound
    /\ server = [statuses |-> {StatusOK, StatusUnauthorized,
                               ServerErrorFloor, TransportError},
                 lifetimes |-> {120}]
    /\ active = {1}

\* entry of doRequest: there is no limiter or c.rateLimiter.Wait(ctx) returns
\* nil at once, and the call passes; or Wait has to wait for a slot (it
\* starts to wait only with a live context); or Wait fails at once (the
\* context is done, or the slot would come after its deadline) and doRequest
\* returns
doRequest(p) ==
    /\ p \in active
    /\ pc[p] = "idle"
    /\ \/ /\ pc' = [pc EXCEPT ![p] = "getToken"]
          /\ UNCHANGED <<result, cause>>
       \/ /\ ~ctxDone
          /\ pc' = [pc EXCEPT ![p] = "wait"]
          /\ UNCHANGED <<result, cause>>
       \/ /\ pc' = [pc EXCEPT ![p] = "done"]
          /\ result' = [result EXCEPT ![p] = Returned(-1, "rate limiter error")]
          /\ cause' = [cause EXCEPT ![p] = CtxErr]
    /\ attempt' = [attempt EXCEPT ![p] = 0]
    /\ backoff' = [backoff EXCEPT ![p] = InitialBackoff]
    /\ lastErr' = [lastErr EXCEPT ![p] = "nil"]
    /\ UNCHANGED <<MaxRetries, server, active, now, token, tokenMu, exchanges,
                   tok, resp, waitDuration, hist, sleeps, tokenCalls,
                   invalidations, tokErr, cleared, ctxDone, wire>>
    /\ UNCHANGED <<streamVars, offsetVars, transportVars, configVars, linkVars,
                   requestVars>>

\* the timer of the reserved slot fires while Wait is waiting
limiterTimer(p) ==
    /\ pc[p] = "wait"
    /\ pc' = [pc EXCEPT ![p] = "slot"]
    /\ UNCHANGED <<MaxRetries, server, active, now, token, tokenMu, exchanges,
                   attempt, backoff, lastErr, tok, resp, waitDuration, result,
                   hist, sleeps, tokenCalls, invalidations, tokErr, cleared,
                   ctxDone, cause, wire>>
    /\ UNCHANGED <<streamVars, offsetVars, transportVars, configVars, linkVars,
                   requestVars>>

\* the select of c.rateLimiter.Wait(ctx) returns: the slot has come and the
\* call passes, or the context is done and doRequest returns "rate limiter
\* error" wrapping ctx.Err(); with both ready either is taken
rateLimiterWait(p) ==
    /\ pc[p] \in {"wait", "slot"}
    /\ \/ /\ pc[p] = "slot"
          /\ pc' = [pc EXCEPT ![p] = "getToken"]
          /\ UNCHANGED <<result, cause>>
       \/ /\ ctxDone
          /\ pc' = [pc EXCEPT ![p] = OnLimiterErr]
          /\ result' = [result EXCEPT ![p] = Returned(-1, "rate limiter error")]
          /\ cause' = [cause EXCEPT ![p] = CtxErr]
    /\ UNCHANGED <<MaxRetries, server, active, now, token, tokenMu, exchanges,
                   attempt, backoff, lastErr, tok, resp, waitDuration, hist,
                   sleeps, tokenCalls, invalidations, tokErr, cleared, ctxDone,
                   wire>>
    /\ UNCHANGED <<streamVars, offsetVars, transportVars, configVars, linkVars,
                   requestVars>>

\* getToken up to the call of the token endpoint: lock tokenMu, return the
\* cached token (and unlock) or start an exchange holding the lock
getToken(p) ==
    /\ pc[p] = "getToken"
    /\ tokenMuFree
    /\ IF CacheUsable(token, now)
       THEN /\ tok' = [tok EXCEPT ![p] = token]
            /\ cleared' = NoToken
            /\ tokenCalls' = [tokenCalls EXCEPT ![p] = 0]
            /\ tokErr' = [tokErr EXCEPT ![p] = "nil"]
            /\ pc' = [pc EXCEPT ![p] = "send"]
            /\ UNCHANGED <<tokenMu, exchanges>>
       ELSE /\ tokenMu' = p
            /\ exchanges' = exchanges + 1
            /\ tokenCalls' = [tokenCalls EXCEPT ![p] = 1]
            /\ pc' = [pc EXCEPT ![p] = "exchange"]
            /\ UNCHANGED <<tok, tokErr, cleared>>
    /\ UNCHANGED <<MaxRetries, server, active, now, token, attempt, backoff,
                   lastErr, resp, waitDuration, result, hist, sleeps,
                   invalidations, ctxDone, cause, wire>>
    /\ UNCHANGED <<streamVars, offsetVars, transportVars, configVars, linkVars,
                   requestVars>>

\* the token endpoint answers: getToken stores and returns the token, or
\* fails, and doRequest then returns "token error"; tokenMu is released
TokenSourceToken(p) ==
    /\ pc[p] = "exchange"
    /\ tokenMu' = 0
    /\ cleared' = NoToken
    /\ \/ \E life \in server.lifetimes :
            /\ ~ctxDone
            /\ token' = IssuedToken(now, life)
            /\ tok' = [tok EXCEPT ![p] = IssuedToken(now, life)]
            /\ tokErr' = [tokErr EXCEPT ![p] = "nil"]
            /\ pc' = [pc EXCEPT ![p] = "send"]
            /\ UNCHANGED <<result, cause>>
       \/ /\ tokErr' = [tokErr EXCEPT ![p] = "failed"]
          /\ pc' = [pc EXCEPT ![p] = OnTokenError(attempt[p])]
          /\ result' = [result EXCEPT ![p] = Returned(-1, "token error")]
          /\ cause' = [cause EXCEPT ![p] = CtxErr]
          /\ UNCHANGED <<token, tok>>
    /\ UNCHANGED <<MaxRetries, server, active, now, exchanges, attempt, backoff,
                   lastErr, resp, waitDuration, hist, sleeps, tokenCalls,
                   invalidations, ctxDone, wire>>
    /\ UNCHANGED <<streamVars, offsetVars, transportVars, configVars, linkVars,
                   requestVars>>

\* reqClone := req.Clone(ctx) with its three headers, then
\* c.clientMu.Lock(); httpClient := c.httpClient; c.clientMu.Unlock()
captureClient(p) ==
    /\ pc[p] = "send"
    /\ clientMuFree
    /\ captured' = [captured EXCEPT ![p] = httpClient]
    /\ clones' = [clones EXCEPT ![p] = Append(@, Clone(req[p]))]
    /\ pc' = [pc EXCEPT ![p] = "do"]
    /\ UNCHANGED <<MaxRetries, server, active, now, token, tokenMu, exchanges,
                   attempt, backoff, lastErr, tok, resp, waitDuration, result,
                   hist, sleeps, tokenCalls, invalidations, tokErr, cleared,
                   ctxDone, cause, wire>>
    /\ UNCHANGED <<clientMu, httpClient, via, pageVia>>
    /\ UNCHANGED <<streamVars, offsetVars, configVars, linkVars, req>>

\* httpClient.Do on the captured transport, and the classification of its
\* outcome
httpClientDo(p) ==
    /\ pc[p] = "do"
    /\ via' = [via EXCEPT ![p] = Append(@, captured[p])]
    /\ captured' = [captured EXCEPT ![p] = NoClient]
    /\ \E whole \in WrittenWhole(req[p]) :
       \E s \in (IF whole THEN DoOutcomes ELSE {TransportError}) :
       \E h \in (IF s = StatusTooManyRequests THEN RetryAfterHeaders ELSE {<< >>}) :
       \E b \in BodyAfterDo(req[p].body, s) :
         /\ wire' = [wire EXCEPT ![p] = IF ctxDone \/ ~whole THEN @ ELSE @ + 1]
         /\ req' = [req EXCEPT ![p].body = b]
         /\ resp' = [resp EXCEPT ![p] = [status |-> s, retryAfter |-> h]]
         /\ hist' = [hist EXCEPT ![p] = Append(@, s)]
         /\ IF s = TransportError
            THEN /\ lastErr' = [lastErr EXCEPT ![p] = RequestFailed]
                 /\ IF attempt[p] < MaxRetries
                    THEN /\ waitDuration' = [waitDuration EXCEPT ![p] = backoff[p]]
                         /\ pc' = [pc EXCEPT ![p] = "sleep"]
                         /\ UNCHANGED <<attempt, result, cause>>
                    ELSE /\ attempt' = [attempt EXCEPT ![p] = NextAttempt(@)]
                         /\ IF LoopCondition(NextAttempt(attempt[p]))
                            THEN /\ pc' = [pc EXCEPT ![p] = "getToken"]
                                 /\ UNCHANGED <<result, cause>>
                            ELSE /\ pc' = [pc EXCEPT ![p] = "done"]
                                 /\ result' = [result EXCEPT ![p] =
                                        Returned(-1, "all retries exhausted")]
                                 /\ cause' = [cause EXCEPT ![p] =
                                        Wrapped(RequestFailed)]
                         /\ UNCHANGED waitDuration
            ELSE /\ UNCHANGED <<lastErr, attempt, cause>>
                 /\ IF Retry401(s, attempt[p])
                    THEN /\ pc' = [pc EXCEPT ![p] = "invalidate"]
                         /\ UNCHANGED <<waitDuration, result>>
                    ELSE IF Retry429(s, attempt[p])
                    THEN /\ waitDuration' = [waitDuration EXCEPT ![p] =
                                RetryAfterWait(h, backoff[p])]
                         /\ pc' = [pc EXCEPT ![p] = "sleep"]
                         /\ UNCHANGED result
                    ELSE IF Retry5xx(s, attempt[p])
                    THEN /\ waitDuration' = [waitDuration EXCEPT ![p] = backoff[p]]
                         /\ pc' = [pc EXCEPT ![p] = "sleep"]
                         /\ UNCHANGED result
                    ELSE /\ pc' = [pc EXCEPT ![p] = "done"]
                         /\ result' = [result EXCEPT ![p] = Returned(s, "nil")]
                         /\ UNCHANGED waitDuration
    /\ UNCHANGED <<MaxRetries, server, active, now, token, tokenMu, exchanges,
                   backoff, tok, sleeps, tokenCalls, invalidations, tokErr,
                   cleared, ctxDone>>
    /\ UNCHANGED <<clientMu, httpClient, pageVia>>
    /\ UNCHANGED <<streamVars, offsetVars, configVars, linkVars, clones>>

\* the 401 branch: c.token = nil under tokenMu, then sleep the backoff
invalidate(p) ==
    /\ pc[p] = "invalidate"
    /\ tokenMuFree
    /\ token' = tokenAfter401(token)
    /\ cleared' = IF token # NoToken THEN token ELSE cleared
    /\ invalidations' = [invalidations EXCEPT ![p] = @ + 1]
    /\ waitDuration' = [waitDuration EXCEPT ![p] = backoff[p]]
    /\ pc' = [pc EXCEPT ![p] = "sleep"]
    /\ UNCHANGED <<MaxRetries, server, active, now, tokenMu, exchanges, attempt,
                   backoff, lastErr, tok, resp, result, hist, sleeps,
                   tokenCalls, tokErr, ctxDone, cause, wire>>
    /\ UNCHANGED <<streamVars, offsetVars, transportVars, configVars, linkVars,
                   requestVars>>

\* time.Sleep returns; backoff *= 2; continue: attempt++ and the loop test
timeSleep(p) ==
    /\ pc[p] = "sleep"
    /\ sleeps' = [sleeps EXCEPT ![p] = Append(@, waitDuration[p])]
    /\ backoff' = [backoff EXCEPT ![p] = NextBackoff(@)]
    /\ attempt' = [attempt EXCEPT ![p] = NextAttempt(@)]
    /\ IF LoopCondition(NextAttempt(attempt[p]))
       THEN /\ pc' = [pc EXCEPT ![p] = "getToken"]
            /\ UNCHANGED <<result, cause>>
       ELSE /\ pc' = [pc EXCEPT ![p] = "done"]
            /\ result' = [result EXCEPT ![p] =
                   Returned(-1, "all retries exhausted")]
            /\ cause' = [cause EXCEPT ![p] = Wrapped(lastErr[p])]
    \* token, resp and waitDuration are scoped to one iteration of the loop
    /\ tok' = [tok EXCEPT ![p] = NoToken]
    /\ resp' = [resp EXCEPT ![p] = NoResponse]
    /\ waitDuration' = [waitDuration EXCEPT ![p] = 0]
    /\ UNCHANGED <<MaxRetries, server, active, now, token, tokenMu, exchanges,
                   lastErr, hist, tokenCalls, invalidations, tokErr, cleared,
                   ctxDone, wire>>
    /\ UNCHANGED <<streamVars, offsetVars, transportVars, configVars, linkVars,
                   requestVars>>

\* the wall clock advances
Tick ==
    /\ now < MaxTicks * ClockStep
    /\ now' = now + ClockStep
    /\ UNCHANGED <<MaxRetries, server, active, token, tokenMu, exchanges, pc,
                   attempt, backoff, lastErr, tok, resp, waitDuration, result,
                   hist, sleeps, tokenCalls, invalidations, tokErr, cleared,
                   ctxDone, cause, wire>>
    /\ UNCHANGED <<streamVars, offsetVars, transportVars, configVars, linkVars,
                   requestVars>>

\* the caller cancels the context it passed to doRequest
Cancel ==
    /\ ~ctxDone
    /\ ctxDone' = TRUE
    /\ UNCHANGED <<MaxRetries, server, active, now, token, tokenMu, exchanges,
                   pc, attempt, backoff, lastErr, tok, resp, waitDuration,
                   result, hist, sleeps, tokenCalls, invalidations, tokErr,
                   cleared, cause, wire>>
    /\ UNCHANGED <<streamVars, offsetVars, transportVars, configVars, linkVars,
                   requestVars>>

Next ==
    \/ \E p \in Callers : doRequest(p)
    \/ \E p \in Callers : limiterTimer(p)
    \/ \E p \in Callers : rateLimiterWait(p)
    \/ \E p \in Callers : getToken(p)
    \/ \E p \in Callers : TokenSourceToken(p)
    \/ \E p \in Callers : captureClient(p)
    \/ \E p \in Callers : httpClientDo(p)
    \/ \E p \in Callers : invalidate(p)
    \/ \E p \in Callers : timeSleep(p)
    \/ Tick

Spec == Init /\ [][Next]_vars

\* one goroutine calls CreateWorkflow, which hands doRequest a POST request
\* with a body
InitPost ==
    /\ now = 0
    /\ token = NoToken
    /\ tokenMu = 0
    /\ exchanges = 0
    /\ pc = [p \in Callers |-> "idle"]
    /\ attempt = [p \in Callers |-> 0]
    /\ backoff = [p \in Callers |-> InitialBackoff]
    /\ lastErr = [p \in Callers |-> "nil"]
    /\ tok = [p \in Callers |-> NoToken]
    /\ resp = [p \in Callers |-> NoResponse]
    /\ waitDuration = [p \in Callers |-> 0]
    /\ result = [p \in Callers |-> NoResult]
    /\ hist = [p \in Callers |-> << >>]
    /\ sleeps = [p \in Callers |-> << >>]
    /\ tokenCalls = [p \in Callers |-> 0]
    /\ invalidations = [p \in Callers |-> 0]
    /\ tokErr = [p \in Callers |-> "nil"]
    /\ cleared = NoToken
    /\ ctxDone = FALSE
    /\ cause = [p \in Callers |-> "none"]
    /\ wire = [p \in Callers |-> 0]
    /\ clientMu = "unlocked"
    /\ httpClient = 0
    /\ captured = [p \in Callers |-> NoClient]
    /\ via = [p \in Callers |-> << >>]
    /\ pageVia = << >>
    /\ validateErr = "pending"
    /\ endpoints = NoEndpoints
    /\ nextLink = NoLink
    /\ cursor = NoCursor
    /\ req = [p \in Callers |-> PostRequest]
    /\ clones = [p \in Callers |-> << >>]
    /\ NoLinkHeader
    /\ NoCandidate
    /\ DefaultLimits
    /\ NoStream
    /\ NoThreatEvents
    /\ MaxRetries \in 0..PostRetriesBound
    /\ server = [statuses |-> {StatusCreated, StatusUnauthorized,
                               ServerErrorFloor, TransportError},
                 lifetimes |-> {120}]
    /\ active = {1}

SpecPost == InitPost /\ [][Next]_vars

\* the concurrent runs: the callers interleave while the clock stands still
NextConc ==
    \/ \E p \in Callers : doRequest(p)
    \/ \E p \in Callers : limiterTimer(p)
    \/ \E p \in Callers : rateLimiterWait(p)
    \/ \E p \in Callers : getToken(p)
    \/ \E p \in Callers : TokenSourceToken(p)
    \/ \E p \in Callers : captureClient(p)
    \/ \E p \in Callers : httpClientDo(p)
    \/ \E p \in Callers : invalidate(p)
    \/ \E p \in Callers : timeSleep(p)

SpecConc == InitConc /\ [][NextConc]_vars

\* the runs with a cancellable context: one caller, whose context may be
\* cancelled at any point of the call
NextCtx ==
    \/ \E p \in Callers : doRequest(p)
    \/ \E p \in Callers : limiterTimer(p)
    \/ \E p \in Callers : rateLimiterWait(p)
    \/ \E p \in Callers : getToken(p)
    \/ \E p \in Callers : TokenSourceToken(p)
    \/ \E p \in Callers : captureClient(p)
    \/ \E p \in Callers : httpClientDo(p)
    \/ \E p \in Callers : invalidate(p)
    \/ \E p \in Callers : timeSleep(p)
    \/ Cancel

SpecCtx == InitCtx /\ [][NextCtx]_vars

\* RefreshHTTPClient up to the construction of the new client: it takes
\* c.clientMu
RefreshHTTPClient ==
    /\ httpClient < MaxRefreshes
    /\ clientMuFree
    /\ clientMu' = "RefreshHTTPClient"
    /\ UNCHANGED <<httpClient, captured, via, pageVia>>
    /\ UNCHANGED <<clientVars, ctxDone, streamVars, offsetVars, configVars,
                   linkVars, requestVars>>

\* c.httpClient = c.createHTTPClient() and the deferred Unlock
createHTTPClient ==
    /\ clientMu = "RefreshHTTPClient"
    /\ httpClient' = httpClient + 1
    /\ clientMu' = "unlocked"
    /\ UNCHANGED <<captured, via, pageVia>>
    /\ UNCHANGED <<clientVars, ctxDone, streamVars, offsetVars, configVars,
                   linkVars, requestVars>>

\* several goroutines call doRequest, each request answered at its first
\* attempt, while another goroutine refreshes the transport
InitRefresh ==
    /\ InitCommon
    /\ NoLinkHeader
    /\ NoCandidate
    /\ DefaultLimits
    /\ NoStream
    /\ NoThreatEvents
    /\ MaxRetries = 0
    /\ server = [statuses |-> {StatusOK}, lifetimes |-> {120}]
    /\ active = Callers

NextRefresh ==
    \/ \E p \in Callers : doRequest(p)
    \/ \E p \in Callers : limiterTimer(p)
    \/ \E p \in Callers : rateLimiterWait(p)
    \/ \E p \in Callers : getToken(p)
    \/ \E p \in Callers : TokenSourceToken(p)
    \/ \E p \in Callers : captureClient(p)
    \/ \E p \in Callers : httpClientDo(p)
    \/ RefreshHTTPClient
    \/ createHTTPClient

SpecRefresh == InitRefresh /\ [][NextRefresh]_vars

\* ------------------------------------------------------ streaming lists
\* ListConfigurationFindings and ListApiEndpoints: a producer goroutine
\* fetches the pages and sends their items on a buffered channel.

RECURSIVE Offset(_, _)
\* number of items in the pages before page j
Offset(sizes, j) == IF j = 1 THEN 0 ELSE Offset(sizes, j - 1) + sizes[j - 1]

\* the pages a server with these page sizes holds; item k is the k-th item
\* of the whole collection
PagesOf(sizes) ==
    [j \in 1..Len(sizes) |-> [i \in 1..sizes[j] |-> Offset(sizes, j) + i]]

\* every sequence of up to MaxPages pages of up to MaxPageItems items
SmallPageSizes == UNION {[1..n -> 0..MaxPageItems] : n \in 1..MaxPages}

PageSizes ==
    SmallPageSizes
        \cup {<<ItemChanCap + 1>>}
        \cup {[j \in 1..LongRunPages |-> 1]}

Consumers == {"range", "CollectAll", "none"}

\* what a page function can fail with while the context is live
PageErrors == {"executing request", "API error", "decoding response"}

\* the page a page token stands for; "" asks for the first page
PageOf(t) == IF t = 0 THEN 1 ELSE t

\* token of the rel="next" link of page j: pages 1..n-1 carry one
NextLink(j) == IF j < Len(pages) THEN j + 1 ELSE 0

\* mutant: the deferred calls in the opposite order
DeferredSwapped == <<"errCh", "findingsCh">>

\* defer close(findingsCh); defer close(errCh), in the order of the source
Deferred == <<"findingsCh", "errCh">>

\* mutant: the item channel takes one item more
ChanFullAbove(ch) == Len(ch) > ItemChanCap

\* a send on the item channel blocks
ChanFull(ch) == Len(ch) >= ItemChanCap

\* mutant: the context is not passed to the page function
PageCtxIgnored == FALSE

\* the ctx the page function hands to doRequest is cancelled
PageCtxDone == ctxDone

\* if nextToken == "" { break }
LoopBreak(t) == t = 0

\* mutant: the select around the send has no case for the context
SendCtxCaseMissing == FALSE

\* case <-ctx.Done() of the select around findingsCh <- finding is ready
SendCtxCase == ctxDone

\* mutant: the items of a page are sent last to first
SendOrderReversed(fs) == fs[Len(fs)]

\* for _, finding := range findings: the next item to send
SendOrder(fs) == Head(fs)

\* mutant: the range over the page skips every second item
RemainingSkipsOne(fs) == IF Len(fs) > 1 THEN Tail(Tail(fs)) ELSE << >>

\* for _, finding := range findings: the items left after the one sent
Remaining(fs) == Tail(fs)

\* mutant: at the close of the item channel errCh is not looked at
ErrAtCloseDropped(ch) == "nil"

\* the inner select of CollectAll: the error waiting on errCh, else (errCh
\* closed, or the default case) nil
ErrAtClose(ch) == IF ch # << >> THEN Head(ch) ELSE "nil"

\* mutant: the select of CollectAll has no case for the context
CtxCaseMissing == FALSE

\* case <-ctx.Done() of CollectAll is ready
CtxCase == ctxDone

\* mutant: CollectAll returns when errCh yields nil
OnNilErrReturn == "done"

\* case err := <-errCh: if err != nil { return }: on nil the loop goes on
OnNilErr == "items"

\* mutant: the page function returns to the loop after posting
AfterPostContinue == "push"

\* errCh <- err; return: the deferred calls run next
AfterPost == "defer2"

InitStream ==
    /\ InitCommon
    /\ NoLinkHeader
    /\ NoCandidate
    /\ DefaultLimits
    /\ NoThreatEvents
    /\ MaxRetries = 0
    /\ server = [statuses |-> {}, lifetimes |-> {}]
    /\ active = {}
    /\ \E sizes \in PageSizes : pages = PagesOf(sizes)
    /\ consumer \in Consumers
    /\ chunkSize = 1
    /\ StreamIdle

\* the list method: make the two channels, start the producer, return
ListConfigurationFindings ==
    /\ prodPc = "idle"
    /\ prodPc' = "listPage"
    /\ pageToken' = 0
    /\ consPc' = IF consumer = "none" THEN "idle" ELSE "items"
    /\ UNCHANGED <<pages, consumer, findings, nextToken, findingsCh,
                   findingsChClosed, errCh, errChClosed, results, consErr,
                   pageRequests, served, errPosts>>
    /\ stagePc' = IF consumer = "StreamInChunks" THEN "recv" ELSE "idle"
    /\ UNCHANGED <<chunkSize, chunk, chunks, handled, chunksCh, chunksChClosed>>
    /\ UNCHANGED <<clientVars, ctxDone, offsetVars, transportVars,
                   configVars, linkVars, requestVars>>

\* one call of the page function and the test of its error: with a cancelled
\* context doRequest fails before anything is sent; otherwise the server
\* answers the page, or the call fails
listConfigurationFindingsPage ==
    /\ prodPc = "listPage"
    /\ pageRequests' = Append(pageRequests, pageToken)
    /\ IF PageCtxDone
       THEN /\ errCh' = Append(errCh, "executing request: context canceled")
            /\ errPosts' = Append(errPosts, "executing request: context canceled")
            /\ prodPc' = AfterPost
            /\ UNCHANGED <<served, findings, nextToken, pageVia>>
       ELSE /\ served' = Append(served, PageOf(pageToken))
            /\ pageVia' = Append(pageVia, httpClient)
            /\ \/ /\ findings' = pages[PageOf(pageToken)]
                  /\ nextToken' = NextLink(PageOf(pageToken))
                  /\ prodPc' = "push"
                  /\ UNCHANGED <<errCh, errPosts>>
               \/ \E e \in PageErrors :
                    /\ errCh' = Append(errCh, e)
                    /\ errPosts' = Append(errPosts, e)
                    /\ prodPc' = AfterPost
                    /\ UNCHANGED <<findings, nextToken>>
    /\ UNCHANGED <<pages, consumer, pageToken, findingsCh, findingsChClosed,
                   errChClosed, consPc, results, consErr>>
    /\ UNCHANGED <<clientMu, httpClient, captured, via>>
    /\ UNCHANGED <<clientVars, ctxDone, offsetVars, chunkVars, configVars,
                   linkVars, requestVars>>

\* the select of the inner loop: send the next item, or, the context being
\* cancelled, post ctx.Err() and return; with both ready either is taken
sendFinding ==
    /\ prodPc = "push"
    /\ findings # << >>
    /\ \/ /\ ~ChanFull(findingsCh)
          /\ findingsCh' = Append(findingsCh, SendOrder(findings))
          /\ findings' = Remaining(findings)
          /\ UNCHANGED <<prodPc, errCh, errPosts>>
       \/ /\ SendCtxCase
          /\ errCh' = Append(errCh, "context canceled")
          /\ errPosts' = Append(errPosts, "context canceled")
          /\ prodPc' = AfterPost
          /\ UNCHANGED <<findingsCh, findings>>
    /\ UNCHANGED <<pages, consumer, pageToken, nextToken, findingsChClosed,
                   errChClosed, consPc, results, consErr, pageRequests,
                   served>>
    /\ UNCHANGED <<clientVars, ctxDone, offsetVars, chunkVars, transportVars,
                   configVars, linkVars, requestVars>>

\* the page is sent: break on an empty nextToken, else fetch the next page
endOfPage ==
    /\ prodPc = "push"
    /\ findings = << >>
    /\ IF LoopBreak(nextToken)
       THEN /\ prodPc' = "defer2"
            /\ UNCHANGED pageToken
       ELSE /\ prodPc' = "listPage"
            /\ pageToken' = nextToken
    /\ UNCHANGED <<pages, consumer, findings, nextToken, findingsCh,
                   findingsChClosed, errCh, errChClosed, consPc, results,
                   consErr, pageRequests, served, errPosts>>
    /\ UNCHANGED <<clientVars, ctxDone, offsetVars, chunkVars, transportVars,
                   configVars, linkVars, requestVars>>

\* the goroutine returns: the deferred calls run last registered first
runDeferred ==
    /\ prodPc \in {"defer2", "defer1"}
    /\ LET ch == IF prodPc = "defer2" THEN Deferred[2] ELSE Deferred[1] IN
         /\ findingsChClosed' = (findingsChClosed \/ ch = "findingsCh")
         /\ errChClosed' = (errChClosed \/ ch = "errCh")
    /\ prodPc' = IF prodPc = "defer2" THEN "defer1" ELSE "done"
    /\ UNCHANGED <<pages, consumer, pageToken, findings, nextToken, findingsCh,
                   errCh, consPc, results, consErr, pageRequests, served,
                   errPosts>>
    /\ UNCHANGED <<clientVars, ctxDone, offsetVars, chunkVars, transportVars,
                   configVars, linkVars, requestVars>>

\* the documented consumer: for finding := range findings { ... }
rangeFindings ==
    /\ consumer = "range"
    /\ consPc = "items"
    /\ \/ /\ findingsCh # << >>
          /\ results' = Append(results, Head(findingsCh))
          /\ findingsCh' = Tail(findingsCh)
          /\ UNCHANGED consPc
       \/ /\ findingsCh = << >>
          /\ findingsChClosed
          /\ consPc' = "err"
          /\ UNCHANGED <<results, findingsCh>>
    /\ UNCHANGED <<pages, consumer, prodPc, pageToken, findings, nextToken,
                   findingsChClosed, errCh, errChClosed, consErr,
                   pageRequests, served, errPosts>>
    /\ UNCHANGED <<clientVars, ctxDone, offsetVars, chunkVars, transportVars,
                   configVars, linkVars, requestVars>>

\* the documented consumer: if err := <-errCh; err != nil { ... }
receiveErr ==
    /\ consumer \in {"range", "StreamInChunks"}
    /\ consPc = "err"
    /\ \/ /\ errCh # << >>
          /\ consErr' = Head(errCh)
          /\ errCh' = Tail(errCh)
       \/ /\ errCh = << >>
          /\ errChClosed
          /\ consErr' = "nil"
          /\ UNCHANGED errCh
    /\ consPc' = "done"
    /\ UNCHANGED <<pages, consumer, prodPc, pageToken, findings, nextToken,
                   findingsCh, findingsChClosed, errChClosed, results,
                   pageRequests, served, errPosts>>
    /\ UNCHANGED <<clientVars, ctxDone, offsetVars, chunkVars, transportVars,
                   configVars, linkVars, requestVars>>

\* one round of the select loop of CollectAll
CollectAll ==
    /\ consumer = "CollectAll"
    /\ consPc = "items"
    /\ \/ \* case item, ok := <-itemsCh, ok
          /\ findingsCh # << >>
          /\ results' = Append(results, Head(findingsCh))
          /\ findingsCh' = Tail(findingsCh)
          /\ UNCHANGED <<errCh, consErr, consPc>>
       \/ \* case item, ok := <-itemsCh, !ok: the inner select on errCh
          /\ findingsCh = << >>
          /\ findingsChClosed
          /\ consErr' = ErrAtClose(errCh)
          /\ errCh' = IF errCh # << >> THEN Tail(errCh) ELSE errCh
          /\ consPc' = "done"
          /\ UNCHANGED <<results, findingsCh>>
       \/ \* case err := <-errCh, err != nil
          /\ errCh # << >>
          /\ consErr' = Head(errCh)
          /\ errCh' = Tail(errCh)
          /\ consPc' = "done"
          /\ UNCHANGED <<results, findingsCh>>
       \/ \* case err := <-errCh on the closed channel: nil, next round
          /\ errCh = << >>
          /\ errChClosed
          /\ consPc' = OnNilErr
          /\ consErr' = IF OnNilErr = "done" THEN "nil" ELSE consErr
          /\ UNCHANGED <<results, findingsCh, errCh>>
       \/ \* case <-ctx.Done()
          /\ CtxCase
          /\ consErr' = "context canceled"
          /\ consPc' = "done"
          /\ UNCHANGED <<results, findingsCh, errCh>>
    /\ UNCHANGED <<pages, consumer, prodPc, pageToken, findings, nextToken,
                   findingsChClosed, errChClosed, pageRequests, served,
                   errPosts>>
    /\ UNCHANGED <<clientVars, ctxDone, offsetVars, chunkVars, transportVars,
                   configVars, linkVars, requestVars>>

NextStream ==
    \/ ListConfigurationFindings
    \/ listConfigurationFindingsPage
    \/ sendFinding
    \/ endOfPage
    \/ runDeferred
    \/ rangeFindings
    \/ receiveErr
    \/ CollectAll
    \/ Cancel

SpecStream == InitStream /\ [][NextStream]_vars

\* the streaming list under the Go scheduler: a goroutine that can run does
\* run. The producer goroutine takes its next step whenever that step stays
\* possible, and so does a caller that ranges over the channel or runs
\* CollectAll; nothing obliges the caller to cancel the context
ProducerStep ==
    \/ listConfigurationFindingsPage
    \/ sendFinding
    \/ endOfPage
    \/ runDeferred

ConsumerStep ==
    \/ rangeFindings
    \/ receiveErr
    \/ CollectAll

\* short page sequences, and one page that does not fit into the item channel
FairPageSizes ==
    UNION {[1..n -> 0..MaxFairPageItems] : n \in 1..MaxFairPages}
        \cup {<<ItemChanCap + 1>>}

InitStreamFair ==
    /\ InitCommon
    /\ NoLinkHeader
    /\ NoCandidate
    /\ DefaultLimits
    /\ NoThreatEvents
    /\ MaxRetries = 0
    /\ server = [statuses |-> {}, lifetimes |-> {}]
    /\ active = {}
    /\ \E sizes \in FairPageSizes : pages = PagesOf(sizes)
    /\ consumer \in Consumers
    /\ chunkSize = 1
    /\ StreamIdle

SpecStreamFair ==
    /\ InitStreamFair
    /\ [][NextStream]_vars
    /\ WF_vars(ListConfigurationFindings)
    /\ WF_vars(ProducerStep)
    /\ WF_vars(ConsumerStep)

\* a streaming list on a client configured to refresh its connections: the
\* caller ranges over the items
InitPaging ==
    /\ InitCommon
    /\ NoLinkHeader
    /\ NoCandidate
    /\ NoThreatEvents
    /\ MaxRetries = 0
    /\ server = [statuses |-> {}, lifetimes |-> {}]
    /\ active = {}
    /\ MaxConcurrency = DefaultConfig.MaxConcurrency
    /\ ConnectionRefreshPages \in 0..MaxPages
    /\ \E sizes \in SmallPageSizes : pages = PagesOf(sizes)
    /\ consumer = "range"
    /\ chunkSize = 1
    /\ StreamIdle

NextPaging ==
    \/ ListConfigurationFindings
    \/ listConfigurationFindingsPage
    \/ sendFinding
    \/ endOfPage
    \/ runDeferred
    \/ rangeFindings
    \/ receiveErr
    \/ Cancel

SpecPaging == InitPaging /\ [][NextPaging]_vars

\* ------------------------------------------------------- chunk helpers
\* CollectInChunks and StreamInChunks, consuming a streaming list.

ChunkConsumers == {"CollectInChunks", "StreamInChunks"}

\* what the caller's processChunk can return
HandlerReturns == {"nil", "handler error"}

\* mutant: a batch is handed over one item late
ChunkFullAbove(c) == Len(c) > chunkSize

\* if len(chunk) >= chunkSize, of CollectInChunks
ChunkFull(c) == Len(c) >= chunkSize

\* mutant: StreamInChunks sends a batch one item early
StageChunkFullEarly(c) == Len(c) >= chunkSize - 1

\* if len(chunk) >= chunkSize, of StreamInChunks
StageChunkFull(c) == Len(c) >= chunkSize

\* mutant: the error of processChunk is dropped and the loop goes on
OnHandlerErrContinue == "items"

\* if err := processChunk(chunk); err != nil { return err }
OnHandlerErr == "done"

InitChunks ==
    /\ InitCommon
    /\ NoLinkHeader
    /\ NoCandidate
    /\ DefaultLimits
    /\ NoThreatEvents
    /\ MaxRetries = 0
    /\ server = [statuses |-> {}, lifetimes |-> {}]
    /\ active = {}
    /\ \E sizes \in SmallPageSizes : pages = PagesOf(sizes)
    /\ consumer \in ChunkConsumers
    /\ chunkSize \in 1..MaxChunkSize
    /\ StreamIdle

\* one round of the select loop of CollectInChunks, processChunk included
CollectInChunks ==
    /\ consumer = "CollectInChunks"
    /\ consPc = "items"
    /\ \/ \* case item, ok := <-itemsCh, ok: append, hand over a full chunk
          /\ findingsCh # << >>
          /\ results' = Append(results, Head(findingsCh))
          /\ findingsCh' = Tail(findingsCh)
          /\ LET c == Append(chunk, Head(findingsCh)) IN
               IF ChunkFull(c)
               THEN \E r \in HandlerReturns :
                      /\ chunks' = Append(chunks, c)
                      /\ handled' = Append(handled, r)
                      /\ chunk' = << >>
                      /\ IF r # "nil"
                         THEN /\ consErr' = r
                              /\ consPc' = OnHandlerErr
                         ELSE UNCHANGED <<consErr, consPc>>
               ELSE /\ chunk' = c
                    /\ UNCHANGED <<chunks, handled, consErr, consPc>>
          /\ UNCHANGED errCh
       \/ \* case item, ok := <-itemsCh, !ok: the rest, then the inner select
          /\ findingsCh = << >>
          /\ findingsChClosed
          /\ IF chunk # << >>
             THEN \E r \in HandlerReturns :
                    /\ chunks' = Append(chunks, chunk)
                    /\ handled' = Append(handled, r)
                    /\ IF r # "nil"
                       THEN /\ consErr' = r
                            /\ UNCHANGED errCh
                       ELSE /\ consErr' = ErrAtClose(errCh)
                            /\ errCh' = IF errCh # << >> THEN Tail(errCh)
                                        ELSE errCh
             ELSE /\ consErr' = ErrAtClose(errCh)
                  /\ errCh' = IF errCh # << >> THEN Tail(errCh) ELSE errCh
                  /\ UNCHANGED <<chunks, handled>>
          /\ chunk' = << >>
          /\ consPc' = "done"
          /\ UNCHANGED <<results, findingsCh>>
       \/ \* case err := <-errCh, err != nil
          /\ errCh # << >>
          /\ consErr' = Head(errCh)
          /\ errCh' = Tail(errCh)
          /\ consPc' = "done"
          /\ UNCHANGED <<results, findingsCh, chunk, chunks, handled>>
       \/ \* case err := <-errCh on the closed channel: nil, next round
          /\ errCh = << >>
          /\ errChClosed
          /\ UNCHANGED <<results, findingsCh, errCh, consErr, consPc, chunk,
                         chunks, handled>>
       \/ \* case <-ctx.Done()
          /\ ctxDone
          /\ consErr' = "context canceled"
          /\ consPc' = "done"
          /\ UNCHANGED <<results, findingsCh, errCh, chunk, chunks, handled>>
    /\ UNCHANGED <<pages, consumer, prodPc, pageToken, findings, nextToken,
                   findingsChClosed, errChClosed, pageRequests, served,
                   errPosts, chunkSize, chunksCh, chunksChClosed, stagePc>>
    /\ UNCHANGED <<clientVars, ctxDone, offsetVars, transportVars,
                   configVars, linkVars, requestVars>>

\* one step of the goroutine of StreamInChunks: a round of its select loop,
\* or one of the two selects that send a batch; its return closes chunksCh
StreamInChunks ==
    /\ consumer = "StreamInChunks"
    /\ \/ \* case item, ok := <-itemsCh, ok
          /\ stagePc = "recv"
          /\ findingsCh # << >>
          /\ results' = Append(results, Head(findingsCh))
          /\ findingsCh' = Tail(findingsCh)
          /\ chunk' = Append(chunk, Head(findingsCh))
          /\ stagePc' = IF StageChunkFull(Append(chunk, Head(findingsCh)))
                        THEN "sendFull" ELSE "recv"
          /\ UNCHANGED <<chunksCh, chunksChClosed>>
       \/ \* case item, ok := <-itemsCh, !ok
          /\ stagePc = "recv"
          /\ findingsCh = << >>
          /\ findingsChClosed
          /\ IF chunk # << >>
             THEN /\ stagePc' = "sendLast"
                  /\ UNCHANGED chunksChClosed
             ELSE /\ stagePc' = "done"
                  /\ chunksChClosed' = TRUE
          /\ UNCHANGED <<results, findingsCh, chunk, chunksCh>>
       \/ \* case chunksCh <- chunk
          /\ stagePc \in {"sendFull", "sendLast"}
          /\ Len(chunksCh) < ChunksChanCap
          /\ chunksCh' = Append(chunksCh, chunk)
          /\ chunk' = << >>
          /\ stagePc' = IF stagePc = "sendFull" THEN "recv" ELSE "done"
          /\ chunksChClosed' = (stagePc = "sendLast")
          /\ UNCHANGED <<results, findingsCh>>
       \/ \* case <-ctx.Done(), in any of the three selects: return
          /\ stagePc \in {"recv", "sendFull", "sendLast"}
          /\ ctxDone
          /\ stagePc' = "done"
          /\ chunksChClosed' = TRUE
          /\ UNCHANGED <<results, findingsCh, chunk, chunksCh>>
    /\ UNCHANGED <<pages, consumer, prodPc, pageToken, findings, nextToken,
                   findingsChClosed, errCh, errChClosed, consPc, consErr,
                   pageRequests, served, errPosts, chunkSize, chunks, handled>>
    /\ UNCHANGED <<clientVars, ctxDone, offsetVars, transportVars,
                   configVars, linkVars, requestVars>>

\* the consumer of StreamInChunks: for chunk := range chunksCh { ... }
rangeChunks ==
    /\ consumer = "StreamInChunks"
    /\ consPc = "items"
    /\ \/ /\ chunksCh # << >>
          /\ chunks' = Append(chunks, Head(chunksCh))
          /\ chunksCh' = Tail(chunksCh)
          /\ UNCHANGED consPc
       \/ /\ chunksCh = << >>
          /\ chunksChClosed
          /\ consPc' = "err"
          /\ UNCHANGED <<chunks, chunksCh>>
    /\ UNCHANGED <<pages, consumer, prodPc, pageToken, findings, nextToken,
                   findingsCh, findingsChClosed, errCh, errChClosed, results,
                   consErr, pageRequests, served, errPosts, chunkSize, chunk,
                   handled, chunksChClosed, stagePc>>
    /\ UNCHANGED <<clientVars, ctxDone, offsetVars, transportVars,
                   configVars, linkVars, requestVars>>

NextChunks ==
    \/ ListConfigurationFindings
    \/ listConfigurationFindingsPage
    \/ sendFinding
    \/ endOfPage
    \/ runDeferred
    \/ receiveErr
    \/ CollectInChunks
    \/ StreamInChunks
    \/ rangeChunks
    \/ Cancel

SpecChunks == InitChunks /\ [][NextChunks]_vars

\* ================================================================ claims
RECURSIVE Pow2(_)
Pow2(k) == IF k = 0 THEN 1 ELSE 2 * Pow2(k - 1)

\* the retryable outcomes other than 429
BackoffOutcome(s) ==
    s = TransportError \/ s = 401 \/ s >= 500

\* a status that is not 401, 429 or 5xx
FinalStatus(s) ==
    s # TransportError /\ s # 401 /\ s # 429 /\ s < 500

\* a Retry-After header that is a number of seconds, and its value
IsSeconds(h) == h # << >> /\ \A i \in 1..Len(h) : h[i] \in Digits

RECURSIVE SecondsOf(_)
SecondsOf(h) ==
    IF h = << >> THEN 0
    ELSE 10 * SecondsOf(SubSeq(h, 1, Len(h) - 1)) + DigitValue(h[Len(h)])

Count401(h) == Cardinality({i \in 1..Len(h) : h[i] = 401})

\* C1: whatever the outcomes of the attempts, one call of doRequest issues at
\* most MaxRetries + 1 HTTP attempts, and it has returned once the last of
\* them has been answered.
C1_AtMostMaxRetriesPlusOneAttempts ==
    \A p \in Callers :
        /\ Len(hist[p]) <= MaxRetries + 1
        /\ Len(hist[p]) = MaxRetries + 1 => pc[p] = "done"

C1_Witness ==
    /\ MaxRetries = 2
    /\ pc[1] = "done"
    /\ hist[1] = <<TransportError, 401, 500>>

\* C2 as stated: against a server that answers 500 to every attempt, doRequest
\* makes MaxRetries + 1 attempts, sleeps 100, 200, ..., 100 * 2^(N-1) ms between
\* them and returns an error and no response.
C2_AlwaysFiveHundredReturnsError ==
    \A p \in Callers :
        ( /\ pc[p] = "done"
          /\ hist[p] # << >>
          /\ \A i \in 1..Len(hist[p]) : hist[p][i] = 500
          /\ result[p].err # "token error" )
        => /\ Len(hist[p]) = MaxRetries + 1
           /\ sleeps[p] = [k \in 1..MaxRetries |-> 100 * Pow2(k - 1)]
           /\ result[p].err # "nil"
           /\ result[p].resp = -1

\* C2 amended: against a server that answers 500 to every attempt, doRequest
\* makes MaxRetries + 1 attempts, sleeps 100, 200, ..., 100 * 2^(N-1) ms between
\* them and returns the last 500 response with a nil error.
C2_AlwaysFiveHundredReturnsResponse ==
    \A p \in Callers :
        ( /\ pc[p] = "done"
          /\ hist[p] # << >>
          /\ \A i \in 1..Len(hist[p]) : hist[p][i] = 500
          /\ result[p].err # "token error" )
        => /\ Len(hist[p]) = MaxRetries + 1
           /\ sleeps[p] = [k \in 1..MaxRetries |-> 100 * Pow2(k - 1)]
           /\ result[p] = [resp |-> 500, err |-> "nil"]

C2_Witness ==
    /\ MaxRetries = 3
    /\ pc[1] = "done"
    /\ hist[1] = <<500, 500, 500, 500>>
    /\ sleeps[1] = <<100, 200, 400>>

\* C3: the sleep before retry attempt k that follows a transport error, a 401
\* or a 5xx is exactly 100 ms * 2^(k-1), whatever failures came before it, and
\* the backoff has doubled after every retryable failure, a 429 included.
C3_BackoffDoubles ==
    \A p \in Callers :
        /\ \A k \in 1..Len(sleeps[p]) :
               BackoffOutcome(hist[p][k]) => sleeps[p][k] = 100 * Pow2(k - 1)
        /\ pc[p] \in {"getToken", "exchange", "send", "do", "invalidate", "sleep"}
               => backoff[p] = 100 * Pow2(attempt[p])
        /\ (pc[p] = "sleep" /\ BackoffOutcome(resp[p].status))
               => waitDuration[p] = 100 * Pow2(attempt[p])

C3_Witness ==
    /\ hist[1] = <<401, 429, TransportError>>
    /\ sleeps[1] = <<100, 2000, 400>>

\* C4: when a 401 is followed by a 200 on the next attempt, the call returns
\* the 200 response with no error, it has invalidated the token once per 401,
\* the retry's getToken made a token exchange whose token the retry sent, and
\* every attempt, the 401 one included, took one unit of the retry budget.
C4_UnauthorizedThenOK ==
    \A p \in Callers :
        LET n == Len(hist[p]) IN
        ( /\ pc[p] = "done"
          /\ n >= 2
          /\ hist[p][n - 1] = 401
          /\ hist[p][n] = 200 )
        => /\ result[p] = [resp |-> 200, err |-> "nil"]
           /\ invalidations[p] = Count401(hist[p])
           /\ tokenCalls[p] = 1
           /\ tok[p].id = exchanges
           /\ tok[p].id >= 2
           /\ attempt[p] + 1 = n
           /\ n <= MaxRetries + 1

C4_Witness ==
    /\ MaxRetries = 1
    /\ pc[1] = "done"
    /\ hist[1] = <<401, 200>>
    /\ invalidations[1] = 1
    /\ exchanges = 2

\* C5: on a 429 with attempts remaining the sleep is the Retry-After value in
\* seconds when the header is a number of seconds, whatever the backoff is,
\* and the current backoff when the header is absent or does not parse.
C5_RetryAfterHonoured ==
    \A p \in Callers :
        (pc[p] = "sleep" /\ resp[p].status = 429)
        => LET h == resp[p].retryAfter IN
           /\ IsSeconds(h) => waitDuration[p] = 1000 * SecondsOf(h)
           /\ ~IsSeconds(h) => waitDuration[p] = backoff[p]

C5_Witness ==
    /\ pc[1] = "sleep"
    /\ attempt[1] = 1
    /\ resp[1] = [status |-> 429, retryAfter |-> <<"1", "0">>]
    /\ waitDuration[1] = 10000
    /\ backoff[1] = 200

\* C6: a response whose status is not 401, 429 or 5xx ends the call: it is the
\* last attempt, it is returned with a nil error, and no sleep follows it.
C6_OtherStatusReturnedAtOnce ==
    \A p \in Callers :
        \A i \in 1..Len(hist[p]) :
            FinalStatus(hist[p][i])
            => /\ i = Len(hist[p])
               /\ pc[p] = "done"
               /\ result[p] = [resp |-> hist[p][i], err |-> "nil"]
               /\ Len(sleeps[p]) = i - 1

C6_Witness ==
    /\ MaxRetries = 3
    /\ pc[1] = "done"
    /\ hist[1] = <<500, 404>>
    /\ sleeps[1] = <<100>>

\* C7: when getToken fails in an attempt, doRequest has returned the token
\* error: that attempt issued no HTTP request, no sleep followed, and the
\* attempts that remained were not used.
C7_TokenErrorReturnsAtOnce ==
    \A p \in Callers :
        tokErr[p] = "failed"
        => /\ pc[p] = "done"
           /\ result[p] = [resp |-> -1, err |-> "token error"]
           /\ Len(hist[p]) = attempt[p]
           /\ Len(sleeps[p]) = attempt[p]
           /\ attempt[p] <= MaxRetries

C7_Witness ==
    /\ MaxRetries = 3
    /\ tokErr[1] = "failed"
    /\ attempt[1] = 1
    /\ hist[1] = <<500>>

\* C8: getToken calls the token endpoint zero times when the cached token has
\* more than 60 seconds before its expiry, and exactly once when the cache is
\* empty or the cached token has 60 seconds or less remaining.
C8_TokenReuse ==
    [][ \A p \in Callers :
          /\ (pc[p] = "getToken" /\ pc'[p] # "getToken")
             => /\ (token # NoToken /\ token.expiry # 0 /\ token.expiry - now > 60)
                   => /\ exchanges' = exchanges
                      /\ pc'[p] = "send"
                      /\ tok'[p] = token
                /\ (token = NoToken \/ (token.expiry # 0 /\ token.expiry - now <= 60))
                   => /\ exchanges' = exchanges + 1
                      /\ pc'[p] = "exchange"
          /\ pc[p] = "exchange" => exchanges' = exchanges
      ]_vars

C8_Witness ==
    /\ pc[1] = "send"
    /\ attempt[1] = 2
    /\ tokenCalls[1] = 0
    /\ exchanges = 2
    /\ now = 60

\* C9: with any number of callers of getToken and of 401 invalidations on one
\* client, at most one token exchange is in flight, the caller making it
\* holds tokenMu, and the cached token changes only under tokenMu, so that no
\* caller sees it half-updated.
C9_OneExchangeInFlight ==
    /\ [](/\ Cardinality({p \in Callers : pc[p] = "exchange"}) <= 1
          /\ \A p \in Callers : pc[p] = "exchange" <=> tokenMu = p)
    /\ [][ token' # token => (tokenMu = 0 \/ tokenMu' = 0) ]_vars

C9_Witness ==
    /\ pc[1] = "exchange"
    /\ pc[2] = "invalidate"
    /\ tokenMu = 1

\* C10: after a 401 invalidation the next getToken makes a token exchange,
\* also when the token that was cleared has more than 60 seconds remaining.
C10_ExchangeAfterInvalidation ==
    [][ \A p \in Callers :
          ( /\ pc[p] = "getToken"
            /\ pc'[p] # "getToken"
            /\ cleared # NoToken
            /\ cleared.expiry - now > 60 )
          => /\ pc'[p] = "exchange"
             /\ exchanges' = exchanges + 1
      ]_vars

C10_Witness ==
    /\ pc[1] = "exchange"
    /\ attempt[1] = 1
    /\ cleared # NoToken
    /\ cleared.expiry - now > 60

\* C11: every token that getToken returns without error has more than 60
\* seconds left before its expiry at the time of the return, whether it came
\* from the cache or was just obtained from the token endpoint
C11_ReturnedTokenUsable ==
    [][\A p \in Callers :
         (pc[p] \in {"getToken", "exchange"} /\ pc'[p] = "send") =>
             \/ IsZero(tok'[p].expiry)      \* no expiry: never expires
             \/ tok'[p].expiry - now' > TokenBuffer]_vars

\* C12: once the caller's context is cancelled doRequest stops retrying at
\* once: a backoff sleep in progress does not lead to another attempt, no
\* new backoff sleep is started, and the call ends with an error that carries
\* the cancellation
C12_CancellationStopsRetries ==
    [][\A p \in Callers :
         (ctxDone /\ pc[p] \notin {"idle", "done"}) =>
             /\ pc[p] = "sleep" => pc'[p] \in {"sleep", "done"}
             /\ pc[p] # "sleep" => pc'[p] # "sleep"
             /\ pc'[p] = "done" => cause'[p] = "canceled"]_vars

\* what a call of doRequest does once its context is cancelled: nothing more
\* is written to the server, and when the call ends it ends with an error
\* that wraps ctx.Err()
DoRequestAfterCancel ==
    [][\A p \in Callers :
         ctxDone =>
             /\ wire'[p] = wire[p]
             /\ (pc[p] # "done" /\ pc'[p] = "done") =>
                    /\ result'[p].resp = -1
                    /\ cause'[p] = "canceled"]_vars

\* ------------------------------------------------ offset-mode listing
\* ListThreatEvents: pages are asked for by number until one comes back
\* short.

\* the events the server returns for ?page=pg&per-page=n: the pg-th run of n
\* events of its collection
ServerPage(pg, n) ==
    [i \in 1..(IF serverEvents - (pg - 1) * n <= 0 THEN 0
               ELSE IF serverEvents - (pg - 1) * n >= n THEN n
               ELSE serverEvents - (pg - 1) * n) |-> (pg - 1) * n + i]

\* mutant: any page with items in it counts as full
HasMoreIfAny(n, per) == n > 0

\* hasMore := len(events) == query.PerPage
HasMore(n, per) == n = per

InitOffset ==
    /\ InitCommon
    /\ NoLinkHeader
    /\ NoCandidate
    /\ DefaultLimits
    /\ NoStream
    /\ MaxRetries = 0
    /\ server = [statuses |-> {}, lifetimes |-> {}]
    /\ active = {}
    /\ serverEvents \in 0..MaxEvents
    /\ pageSize \in 1..MaxPerPage
    /\ queryPage \in 0..MaxStartPage
    /\ perPage \in 0..MaxPerPage
    /\ ThreatEventsIdle

\* entry of ListThreatEvents: the defaults of the query, page := query.Page
ListThreatEvents ==
    /\ tePc = "idle"
    /\ queryPage' = IF queryPage = 0 THEN 1 ELSE queryPage
    /\ perPage' = IF perPage = 0 THEN pageSize ELSE perPage
    /\ page' = IF queryPage = 0 THEN 1 ELSE queryPage
    /\ tePc' = "loop"
    /\ UNCHANGED <<serverEvents, pageSize, allEvents, teRequests, teResult>>
    /\ UNCHANGED <<clientVars, ctxDone, streamVars, transportVars,
                   configVars, linkVars, requestVars>>

\* one iteration of the loop: fetch the page, return on an error, append,
\* stop on a short or empty page, else page++
listThreatEventsPage ==
    /\ tePc = "loop"
    /\ queryPage' = page
    /\ teRequests' = Append(teRequests, page)
    /\ \/ \E e \in PageErrors :
            /\ teResult' = [events |-> << >>, err |-> e]
            /\ tePc' = "done"
            /\ UNCHANGED <<allEvents, page>>
       \/ LET got == ServerPage(page, perPage) IN
            /\ allEvents' = allEvents \o got
            /\ IF ~HasMore(Len(got), perPage) \/ Len(got) = 0
               THEN /\ tePc' = "done"
                    /\ teResult' = [events |-> allEvents \o got, err |-> "nil"]
                    /\ UNCHANGED page
               ELSE /\ page' = page + 1
                    /\ UNCHANGED <<tePc, teResult>>
    /\ UNCHANGED <<serverEvents, pageSize, perPage>>
    /\ UNCHANGED <<clientVars, ctxDone, streamVars, transportVars,
                   configVars, linkVars, requestVars>>

NextOffset ==
    \/ ListThreatEvents
    \/ listThreatEventsPage

SpecOffset == InitOffset /\ [][NextOffset]_vars

\* ------------------------------------------------ streaming list claims
RECURSIVE ConcatPages(_)
\* the items of all pages, page after page
ConcatPages(ps) ==
    IF ps = << >> THEN << >> ELSE Head(ps) \o ConcatPages(Tail(ps))

AllItems == ConcatPages(pages)

IsPrefix(a, b) == Len(a) <= Len(b) /\ SubSeq(b, 1, Len(a)) = a

\* the error is, or wraps, ctx.Err()
IsCancellation(e) ==
    e \in {"context canceled", "executing request: context canceled"}

\* page tokens of the requests for pages 1..n, in order
TokensUpTo(n) == [j \in 1..n |-> IF j = 1 THEN 0 ELSE j]

\* C13: once the context is cancelled the producer of a streaming list sends
\* no further page request to the server, and an error it posts from then on
\* is, or wraps, the context's cancellation error; a producer that ended
\* before the page without next link has posted an error
C13_CancelStopsPaging ==
    /\ [](prodPc = "done" /\ Len(served) < Len(pages) => Len(errPosts) = 1)
    /\ [][ctxDone =>
            /\ served' = served
            /\ errPosts' # errPosts =>
                   IsCancellation(errPosts'[Len(errPosts')])]_vars

\* cancelled after page 1 of the run of one-item pages: the page function is
\* called for page 2, nothing is sent, the cancellation is posted
C13_Witness ==
    /\ Len(pages) = LongRunPages
    /\ ctxDone
    /\ prodPc = "done"
    /\ served = <<1>>
    /\ pageRequests = <<0, 2>>
    /\ errPosts = <<"executing request: context canceled">>

C16_AtMostOneErrorThenStop ==
    /\ [](/\ Len(errPosts) <= 1
          /\ Len(errCh) <= ErrChanCap
          /\ errPosts # << >> => prodPc \in {"defer2", "defer1", "done"}
          /\ prodPc = "done" => findingsChClosed)
    /\ [][errPosts # << >> =>
            /\ errPosts' = errPosts
            /\ pageRequests' = pageRequests
            /\ Len(findingsCh') <= Len(findingsCh)]_vars

C16_Witness ==
    /\ errPosts = <<"API error">>
    /\ pageRequests = <<0, 2>>
    /\ Len(pages) = MaxPages
    /\ prodPc = "done"
    /\ findingsChClosed

\* C17: the consumer that ranges over the item channel to its close and then
\* receives from the error channel ends with all items in order and no
\* error, or with an in-order prefix of them and the one error posted; what
\* it holds is at every moment a prefix of the item sequence, and nothing is
\* sent on the item channel after its close
C17_CompleteOrPrefixWithError ==
    /\ [](/\ IsPrefix(results, AllItems)
          /\ (consumer = "range" /\ consPc = "done") =>
                \/ consErr = "nil" /\ results = AllItems /\ errPosts = << >>
                \/ consErr # "nil" /\ errPosts = <<consErr>>)
    /\ [][findingsChClosed => Len(findingsCh') <= Len(findingsCh)]_vars

C17_Witness ==
    /\ consumer = "range"
    /\ consPc = "done"
    /\ consErr = "decoding response"
    /\ results # << >>
    /\ Len(results) < Len(AllItems)
    /\ \E j \in 1..Len(pages) : Len(pages[j]) > 1

\* C18: the item channel never holds more than 100 items; with a consumer
\* that never receives and a live context, the producer that has 100 items
\* buffered and one more to send stays where it is and posts no error
C18_BoundedQueueBlocksProducer ==
    /\ [](Len(findingsCh) <= ItemChanCap)
    /\ [][(/\ consumer = "none"
           /\ Len(findingsCh) = ItemChanCap
           /\ prodPc = "push"
           /\ findings # << >>
           /\ ~ctxDone) =>
              /\ prodPc' = "push"
              /\ findings' = findings
              /\ findingsCh' = findingsCh
              /\ errPosts' = << >>]_vars

C18_Witness ==
    /\ consumer = "none"
    /\ Len(findingsCh) = ItemChanCap
    /\ prodPc = "push"
    /\ findings # << >>
    /\ errPosts = << >>

\* C19: with the documented pattern the receive on the error channel never
\* blocks: whenever the consumer has seen the item channel closed the error
\* channel holds the posted error or is closed, and the receive yields that
\* error, or nil if none was posted
C19_ErrReceiveNeverBlocks ==
    /\ findingsChClosed => errChClosed
    /\ (consumer = "range" /\ consPc = "err") =>
           /\ errCh # << >> \/ errChClosed
           /\ errCh = errPosts
    /\ (consumer = "range" /\ consPc = "done") =>
           consErr = IF errPosts = << >> THEN "nil" ELSE errPosts[1]

C19_Witness ==
    /\ consumer = "range"
    /\ consPc = "err"
    /\ errCh = <<"context canceled">>
    /\ errChClosed

\* C20: when the producer sends its items and closes the item channel
\* without posting an error, and the context is not cancelled, CollectAll
\* returns exactly the items sent, in order, and a nil error; for a channel
\* closed with no items it returns no items and nil
C20_CollectAllReturnsAll ==
    (consumer = "CollectAll" /\ consPc = "done" /\ errPosts = << >>
        /\ ~ctxDone) =>
        /\ results = AllItems
        /\ consErr = "nil"
        /\ findingsChClosed
        /\ findingsCh = << >>

C20_Witness ==
    /\ consumer = "CollectAll"
    /\ consPc = "done"
    /\ ~ctxDone
    /\ errPosts = << >>
    /\ consErr = "nil"
    /\ Len(results) = MaxPages * MaxPageItems

\* ------------------------------------------------ offset-mode claims
\* C15: ListThreatEvents asks for pages p, p+1, ... and stops after the
\* first page with fewer items than the page size; page size 2 over 3 events
\* gives 3 events from exactly 2 requests, and a collection that is an exact
\* multiple of the page size costs one extra request, answered by an empty
\* page
C15_OffsetStopsAfterShortPage ==
    (tePc = "done" /\ teResult.err = "nil") =>
        LET k == Len(teRequests) IN
        /\ k >= 1
        /\ \A i \in 1..k : teRequests[i] = teRequests[1] + i - 1
        /\ \A i \in 1..(k - 1) :
             Len(ServerPage(teRequests[i], perPage)) = perPage
        /\ Len(ServerPage(teRequests[k], perPage)) < perPage
        /\ (teRequests[1] = 1 /\ perPage = 2 /\ serverEvents = 3) =>
              /\ teResult.events = <<1, 2, 3>>
              /\ teRequests = <<1, 2>>
        /\ (teRequests[1] = 1 /\ serverEvents % perPage = 0) =>
              /\ k = (serverEvents \div perPage) + 1
              /\ ServerPage(teRequests[k], perPage) = << >>
              /\ teResult.events = [i \in 1..serverEvents |-> i]

C15_Witness ==
    /\ tePc = "done"
    /\ teResult.err = "nil"
    /\ perPage = 2
    /\ serverEvents = 4
    /\ teRequests = <<1, 2, 3>>
    /\ teResult.events = <<1, 2, 3, 4>>

\* ------------------------------------------------ consumer helper claims
\* C21: when the producer has posted an error CollectAll returns that very
\* error, never nil and, with the context not cancelled, never another one
\* (with the context cancelled it may return ctx.Err() instead), together
\* with an in-order prefix of the items
C21_CollectAllReturnsPostedError ==
    (consumer = "CollectAll" /\ consPc = "done" /\ errPosts # << >>) =>
        /\ consErr # "nil"
        /\ ~ctxDone => consErr = errPosts[1]
        /\ consErr \in {errPosts[1], "context canceled"}
        /\ IsPrefix(results, AllItems)

C21_Witness ==
    /\ consumer = "CollectAll"
    /\ consPc = "done"
    /\ ~ctxDone
    /\ errPosts = <<"API error">>
    /\ consErr = "API error"
    /\ results # << >>
    /\ findingsCh # << >>

\* C22: with the context cancelled and neither an item nor an error (nor a
\* close) to receive, CollectAll can proceed, and what it does is return
\* ctx.Err() with what it has collected, the stream still open
C22_CollectAllReturnsOnCancel ==
    /\ []((/\ consumer = "CollectAll"
           /\ consPc = "items"
           /\ ctxDone
           /\ findingsCh = << >> /\ ~findingsChClosed
           /\ errCh = << >> /\ ~errChClosed) => ENABLED CollectAll)
    /\ [][(/\ consumer = "CollectAll"
           /\ consPc = "items"
           /\ ctxDone
           /\ findingsCh = << >> /\ ~findingsChClosed
           /\ errCh = << >> /\ ~errChClosed
           /\ consPc' # consPc) =>
              /\ consPc' = "done"
              /\ consErr' = "context canceled"
              /\ results' = results]_vars

C22_Witness ==
    /\ consumer = "CollectAll"
    /\ consPc = "done"
    /\ consErr = "context canceled"
    /\ ~findingsChClosed
    /\ ~errChClosed
    /\ errPosts = << >>
    /\ findingsCh = << >>

\* batches of exactly chunkSize items, the last one possibly shorter but
\* never empty
FullThenPartial(cs) ==
    /\ \A i \in 1..(Len(cs) - 1) : Len(cs[i]) = chunkSize
    /\ cs # << >> => Len(cs[Len(cs)]) \in 1..chunkSize

\* C23: on a stream that closes without error, with the context not
\* cancelled and processChunk returning nil, CollectInChunks hands over
\* consecutive batches of exactly chunkSize items and, when items remain at
\* the close, one last shorter non-empty batch; the batches in call order
\* make up the item sequence, and the call returns nil
C23_CollectInChunksBatches ==
    /\ (consumer = "CollectInChunks" /\ consPc = "items") =>
          \A i \in 1..Len(chunks) : Len(chunks[i]) = chunkSize
    /\ (/\ consumer = "CollectInChunks"
        /\ consPc = "done"
        /\ errPosts = << >>
        /\ ~ctxDone
        /\ \A i \in 1..Len(handled) : handled[i] = "nil") =>
          /\ consErr = "nil"
          /\ Len(handled) = Len(chunks)
          /\ FullThenPartial(chunks)
          /\ ConcatPages(chunks) = AllItems

C23_Witness ==
    /\ consumer = "CollectInChunks"
    /\ consPc = "done"
    /\ consErr = "nil"
    /\ ~ctxDone
    /\ chunkSize = 2
    /\ chunks = <<<<1, 2>>, <<3, 4>>, <<5>>>>
    /\ handled = <<"nil", "nil", "nil">>

\* C24: when processChunk returns an error for a batch, full or last,
\* CollectInChunks returns that error at once: the failed call is the last
\* call of the handler, and after the return nothing more is received
C24_HandlerErrorAborts ==
    /\ [](consumer = "CollectInChunks" =>
            \A i \in 1..Len(handled) :
                handled[i] # "nil" =>
                    /\ i = Len(handled)
                    /\ consPc = "done"
                    /\ consErr = handled[i])
    /\ [][(consumer = "CollectInChunks" /\ consPc = "done") =>
            /\ consPc' = "done"
            /\ consErr' = consErr
            /\ results' = results
            /\ chunks' = chunks
            /\ handled' = handled
            /\ Len(findingsCh') >= Len(findingsCh)]_vars

C24_Witness ==
    /\ consumer = "CollectInChunks"
    /\ consPc = "done"
    /\ consErr = "handler error"
    /\ handled = <<"nil", "handler error">>
    /\ findingsCh # << >>
    /\ ~findingsChClosed

\* C25: with the context not cancelled, StreamInChunks emits batches of
\* exactly chunkSize items and, when items remain at the close of the input,
\* one last shorter batch; the batches in order make up the items it
\* received, and it closes the batch channel only after the input channel is
\* closed and drained
C25_StreamInChunksBatches ==
    (consumer = "StreamInChunks" /\ ~ctxDone) =>
        /\ ConcatPages(chunks \o chunksCh) \o chunk = results
        /\ FullThenPartial(chunks \o chunksCh)
        /\ \A i \in 1..Len(chunks \o chunksCh) :
             Len((chunks \o chunksCh)[i]) < chunkSize => stagePc = "done"
        /\ chunksChClosed =>
             /\ findingsChClosed
             /\ findingsCh = << >>
             /\ chunk = << >>
        /\ consPc \in {"err", "done"} =>
             /\ ConcatPages(chunks) = results
             /\ errPosts = << >> => results = AllItems

C25_Witness ==
    /\ consumer = "StreamInChunks"
    /\ consPc = "done"
    /\ consErr = "nil"
    /\ ~ctxDone
    /\ chunkSize = 2
    /\ chunks = <<<<1, 2>>, <<3, 4>>, <<5>>>>

\* -------------------------------------------------- transport refresh claims

\* C26: RefreshHTTPClient swaps the transport atomically while requests run.
\* An attempt takes its transport reference while no refresh holds clientMu,
\* and takes the current one, so an attempt that starts after a swap uses
\* the new transport; the reference stays the same for the whole attempt,
\* whatever is swapped meanwhile, and the HTTP call goes through it; the
\* lock is not held during the HTTP call, so with attempts in flight a
\* refresh can still take the lock, and a refresh that holds it can always
\* finish the swap
C26_RefreshSwapsAtomically ==
    [][/\ \A p \in Callers :
            /\ (pc[p] = "send" /\ pc'[p] = "do") =>
                  /\ clientMu = "unlocked"
                  /\ captured'[p] = httpClient
            /\ (pc[p] = "do" /\ pc'[p] = "do") => captured'[p] = captured[p]
            /\ (pc[p] = "do" /\ pc'[p] # "do") =>
                  via'[p] = Append(via[p], captured[p])
       /\ httpClient' >= httpClient
       /\ ((\E p \in Callers : pc[p] = "do")
              /\ clientMu = "unlocked" /\ httpClient < MaxRefreshes)
            => ENABLED RefreshHTTPClient
       /\ clientMu = "RefreshHTTPClient" => ENABLED createHTTPClient
      ]_vars

\* one attempt is in flight on the transport it captured before a swap while
\* an attempt of another caller has gone through the new transport
C26_Witness ==
    \E p, q \in Callers :
        /\ pc[p] = "do"
        /\ captured[p] < httpClient
        /\ via[q] # << >>
        /\ via[q][Len(via[q])] = httpClient

\* ------------------------------------------------------ rate limiter claims

SameTransport(k, n) == \A i \in k..(k + n) : pageVia[i] = pageVia[k]

\* C28: with ConnectionRefreshPages = N > 0 no transport instance serves more
\* than N consecutive page requests of one streaming list
C28_RefreshEveryNPages ==
    ConnectionRefreshPages > 0 =>
        \A k \in 1..Len(pageVia) :
            k + ConnectionRefreshPages <= Len(pageVia)
                => ~SameTransport(k, ConnectionRefreshPages)

\* ------------------------------------------------------- concurrency claims

\* the callers whose HTTP request is in flight
InFlight == {p \in Callers : pc[p] = "do"}

\* C29: at no time are more than MaxConcurrency requests of one client in
\* flight, however many calls run at once
C29_AtMostMaxConcurrencyInFlight == Cardinality(InFlight) <= MaxConcurrency

\* -------------------------------------------------------- configuration
\* Config.Validate, called on configurations built field by field.

\* the values tried for each field
Names(n) == {"", n}
RegionValues == {"US", "EU", "ME", "INVALID", ""}
MaxRetriesValues == {0 - 1, 0, 3}
MaxConcurrencyValues == {0, 1, 10}
PageSizeValues == {0 - 1, 0, 1, 100, 1000, 1001, PageSizeLimit, PageSizeLimit + 1}

Configs ==
    [ClientID : Names("test-client"), ClientSecret : Names("test-secret"),
     OrganizationID : Names("test-org"), Region : RegionValues,
     BaseURL : Names("https://custom.api.com"),
     TokenURL : Names("https://custom.auth.com/token"),
     MaxRetries : MaxRetriesValues, MaxConcurrency : MaxConcurrencyValues,
     PageSize : PageSizeValues,
     ConnectionRefreshPages : {DefaultConfig.ConnectionRefreshPages}]

\* c.Region != RegionUS && c.Region != RegionEU && c.Region != RegionME
RegionInvalid(r) == r # "US" /\ r # "EU" /\ r # "ME"

\* c.PageSize < 1 || c.PageSize > 10000
PageSizeInvalid(n) == n < 1 \/ n > PageSizeLimit

\* func (c *Config) Validate() error: the error text, or "nil"
Validate(c) ==
    IF c.ClientID = "" THEN "client_id is required"
    ELSE IF c.ClientSecret = "" THEN "client_secret is required"
    ELSE IF c.OrganizationID = "" THEN "organization_id is required"
    ELSE IF RegionInvalid(c.Region) THEN "invalid region"
    ELSE IF c.MaxRetries < 0 THEN "max_retries must be >= 0"
    ELSE IF c.MaxConcurrency < 1 THEN "max_concurrency must be >= 1"
    ELSE IF PageSizeInvalid(c.PageSize)
    THEN "page_size must be between 1 and 10000"
    ELSE "nil"

\* the switch of GetBaseURL: the default base URL of the region
RegionBaseURL(r) ==
    IF r = "EU" THEN "https://api.eu.upwind.io/v1"
    ELSE IF r = "ME" THEN "https://api.me.upwind.io/v1"
    ELSE "https://api.upwind.io/v1"

\* mutation of GetBaseURL: c.BaseURL is not looked at
GetBaseURLOfRegion(c) == RegionBaseURL(c.Region)

\* func (c *Config) GetBaseURL() string
GetBaseURL(c) == IF c.BaseURL # "" THEN c.BaseURL ELSE RegionBaseURL(c.Region)

\* func (c *Config) GetTokenURL() string
GetTokenURL(c) ==
    IF c.TokenURL # "" THEN c.TokenURL ELSE "https://auth.upwind.io/oauth/token"

\* func (c *Config) GetAudience() string
GetAudience(c) ==
    IF c.Region = "EU" THEN "https://api.eu.upwind.io"
    ELSE IF c.Region = "ME" THEN "https://api.me.upwind.io"
    ELSE "https://api.upwind.io"

InitConfig ==
    /\ InitCommon
    /\ NoLinkHeader
    /\ DefaultLimits
    /\ NoStream
    /\ NoThreatEvents
    /\ MaxRetries = 0
    /\ server = [statuses |-> {}, lifetimes |-> {}]
    /\ active = {}
    /\ candidate \in Configs

\* one call of Validate on the configuration
ConfigValidate ==
    /\ validateErr = "pending"
    /\ validateErr' = Validate(candidate)
    /\ UNCHANGED <<MaxConcurrency, ConnectionRefreshPages, candidate, endpoints>>
    /\ UNCHANGED <<clientVars, ctxDone, streamVars, offsetVars, transportVars,
                   linkVars, requestVars>>

\* the three getters are called on the configuration
GetEndpoints ==
    /\ endpoints = NoEndpoints
    /\ endpoints' = [baseURL |-> GetBaseURL(candidate),
                     tokenURL |-> GetTokenURL(candidate),
                     audience |-> GetAudience(candidate)]
    /\ UNCHANGED <<MaxConcurrency, ConnectionRefreshPages, candidate,
                   validateErr>>
    /\ UNCHANGED <<clientVars, ctxDone, streamVars, offsetVars, transportVars,
                   linkVars, requestVars>>

NextConfig ==
    \/ ConfigValidate
    \/ GetEndpoints

SpecConfig == InitConfig /\ [][NextConfig]_vars

\* ------------------------------------------------- configuration claims

\* every field but PageSize is valid
OtherFieldsValid(c) ==
    /\ c.ClientID # ""
    /\ c.ClientSecret # ""
    /\ c.OrganizationID # ""
    /\ c.Region \in {"US", "EU", "ME"}
    /\ c.MaxRetries >= 0
    /\ c.MaxConcurrency >= 1

\* C30: Validate accepts a configuration exactly when the three identifiers
\* are non-empty, Region is US, EU or ME, MaxRetries >= 0, MaxConcurrency >= 1
\* and PageSize is in the allowed range; PageSize 0 and PageSize 1001 are
\* outside that range, and a configuration with one of them and every other
\* field valid is rejected with the page size error
C30_ValidateAcceptsExactlyValid ==
    validateErr # "pending" =>
        /\ validateErr = "nil" =>
              /\ OtherFieldsValid(candidate)
              /\ candidate.PageSize \notin {0, 1001}
        /\ (OtherFieldsValid(candidate) /\ validateErr # "nil") =>
              validateErr = "page_size must be between 1 and 10000"
        /\ (OtherFieldsValid(candidate) /\ candidate.PageSize \in {0, 1001}) =>
              validateErr = "page_size must be between 1 and 10000"

\* the three regions
Regions == {"US", "EU", "ME"}

\* the configuration c moved to region r with no override set
InRegion(c, r) == [c EXCEPT !.Region = r, !.BaseURL = "", !.TokenURL = ""]

\* C31 as stated: the three regions have pairwise distinct default base URLs,
\* token URLs and audiences, and each of the three values is overridden by
\* configuration, the override taking precedence over the region default
C31_RegionsDistinctAllOverridable ==
    endpoints # NoEndpoints =>
        /\ \A r1, r2 \in Regions :
               r1 # r2 =>
                 /\ GetBaseURL(InRegion(candidate, r1))
                       # GetBaseURL(InRegion(candidate, r2))
                 /\ GetTokenURL(InRegion(candidate, r1))
                       # GetTokenURL(InRegion(candidate, r2))
                 /\ GetAudience(InRegion(candidate, r1))
                       # GetAudience(InRegion(candidate, r2))
        /\ candidate.BaseURL # "" => endpoints.baseURL = candidate.BaseURL
        /\ candidate.TokenURL # "" => endpoints.tokenURL = candidate.TokenURL
        /\ \E c \in Configs :
               /\ c.Region = candidate.Region
               /\ GetAudience(c) # GetAudience(InRegion(candidate, c.Region))

\* C31 as the code has it: the three regions have pairwise distinct default
\* base URLs and pairwise distinct audiences and share one default token URL;
\* the base URL and the token URL are each overridden by their own field, the
\* override taking precedence and leaving the other values alone; the
\* audience follows the region alone, whatever else the configuration holds
C31_RegionsDistinctBaseAndAudience ==
    endpoints # NoEndpoints =>
        /\ \A r1, r2 \in Regions :
               r1 # r2 =>
                 /\ GetBaseURL(InRegion(candidate, r1))
                       # GetBaseURL(InRegion(candidate, r2))
                 /\ GetAudience(InRegion(candidate, r1))
                       # GetAudience(InRegion(candidate, r2))
               /\ GetTokenURL(InRegion(candidate, r1))
                     = GetTokenURL(InRegion(candidate, r2))
        /\ endpoints.baseURL =
              IF candidate.BaseURL # "" THEN candidate.BaseURL
              ELSE GetBaseURL(InRegion(candidate, candidate.Region))
        /\ endpoints.tokenURL =
              IF candidate.TokenURL # "" THEN candidate.TokenURL
              ELSE GetTokenURL(InRegion(candidate, candidate.Region))
        /\ \A c \in Configs :
               c.Region = candidate.Region => GetAudience(c) = endpoints.audience

\* the getters have answered for an EU configuration whose base URL is
\* overridden and whose token URL is not
C31_Witness ==
    /\ candidate.Region = "EU"
    /\ candidate.BaseURL = "https://custom.api.com"
    /\ candidate.TokenURL = ""
    /\ endpoints = [baseURL |-> "https://custom.api.com",
                    tokenURL |-> "https://auth.upwind.io/oauth/token",
                    audience |-> "https://api.eu.upwind.io"]

\* ------------------------------------------------------- extractNextLink
\* The Link header is a sequence of lexical units: "<", ">", ";", ",", " ",
\* a URL, the parameter rel="next" ("next"), another rel ("first") and
\* another parameter ("title").

MaxLinks == 3             \* most links in one header

\* one link of the header: its URL, its relation, whether a space follows
\* the ";" and whether another parameter stands before rel
LinkForms ==
    [url : {"A", "B"}, rel : {"next", "first"}, space : BOOLEAN,
     extra : BOOLEAN]

\* the link as the server writes it
FormatLink(l) ==
    <<"<", l.url, ">", ";">>
      \o (IF l.space THEN <<" ">> ELSE << >>)
      \o (IF l.extra THEN <<"title", ";", " ">> ELSE << >>)
      \o <<l.rel>>

RECURSIVE FormatLinks(_)
FormatLinks(ls) ==
    IF ls = << >> THEN << >>
    ELSE IF Len(ls) = 1 THEN FormatLink(ls[1])
    ELSE FormatLink(ls[1]) \o <<",", " ">> \o FormatLinks(Tail(ls))

\* headers that are not a list of links
MalformedHeaders ==
    {<<"title">>,
     <<"<", "A", ";", " ", "next">>,
     <<"A", ">", ";", " ", "next">>,
     <<"<", ">", ";", " ", "next">>,
     <<"<", "A", ">", " ", "next">>,
     <<"<", "A", ";", " ", "first", ",", " ", "<", "B", ">", ";", " ", "next">>}

\* [^>]+ followed by ">": the place of the first ">" after i (0: none)
FirstClose(h, i) ==
    IF \E j \in (i + 1)..Len(h) : h[j] = ">"
    THEN CHOOSE j \in (i + 1)..Len(h) :
             h[j] = ">" /\ \A k \in (i + 1)..(j - 1) : h[k] # ">"
    ELSE 0

\* mutation of SkipSpace: no white space is allowed after the ";"
SkipNothing(h, k) == k

\* \s*: the first place from k on that holds no white space
RECURSIVE SkipSpace(_, _)
SkipSpace(h, k) ==
    IF k <= Len(h) /\ h[k] = " " THEN SkipSpace(h, k + 1) ELSE k

\* the pattern <([^>]+)>;\s*rel="next" matches h from place i on
MatchAt(h, i) ==
    /\ h[i] = "<"
    /\ LET j == FirstClose(h, i) IN
         /\ j > i + 1
         /\ j + 1 <= Len(h)
         /\ h[j + 1] = ";"
         /\ LET k == SkipSpace(h, j + 2) IN k <= Len(h) /\ h[k] = "next"

\* nextLinkRE.FindStringSubmatch: the leftmost match and its group, or nil
FindStringSubmatch(h) ==
    IF \E i \in 1..Len(h) : MatchAt(h, i)
    THEN LET i == CHOOSE i \in 1..Len(h) :
                      MatchAt(h, i) /\ \A k \in 1..(i - 1) : ~MatchAt(h, k)
             j == FirstClose(h, i)
         IN  <<SubSeq(h, i, SkipSpace(h, j + 2)), SubSeq(h, i + 1, j - 1)>>
    ELSE << >>

\* func extractNextLink(linkHeader string) (string, error)
extractNextLink(h) ==
    IF h = << >> THEN [url |-> << >>, err |-> "nil"]
    ELSE LET matches == FindStringSubmatch(h) IN
         IF Len(matches) # 2 THEN [url |-> << >>, err |-> "nil"]
         ELSE [url |-> matches[2], err |-> "nil"]

\* a response carries a Link header: a list of links or something else
InitLink ==
    /\ InitCommon
    /\ NoCandidate
    /\ DefaultLimits
    /\ NoStream
    /\ NoThreatEvents
    /\ MaxRetries = 0
    /\ server = [statuses |-> {}, lifetimes |-> {}]
    /\ active = {}
    /\ \/ /\ \E n \in 0..MaxLinks : links \in [1..n -> LinkForms]
          /\ linkHeader = FormatLinks(links)
       \/ /\ links = << >>
          /\ linkHeader \in MalformedHeaders

\* nextLink, err := extractNextLink(resp.Header.Get("Link"))
ExtractNextLink ==
    /\ nextLink = NoLink
    /\ nextLink' = extractNextLink(linkHeader)
    /\ UNCHANGED <<links, linkHeader, cursor>>
    /\ UNCHANGED <<clientVars, ctxDone, streamVars, offsetVars, transportVars,
                   configVars, requestVars>>

NextLinkHeader == ExtractNextLink

SpecLink == InitLink /\ [][NextLinkHeader]_vars

\* ------------------------------------------------ extractNextLink claims

\* the header is the list of links in links
IsLinkList == linkHeader = FormatLinks(links)

\* the places of the links whose relation is next
NextRels == {i \in 1..Len(links) : links[i].rel = "next"}

\* the places of the links written <URL>; rel="next", the relation being the
\* first parameter
PlainNextRels == {i \in NextRels : ~links[i].extra}

\* the least element of a non-empty set of places
First(S) == CHOOSE i \in S : \A k \in S : i <= k

\* a "<" that is not closed before the next "<" stands at place i
Unclosed(h, i) ==
    /\ h[i] = "<"
    /\ \E k \in (i + 1)..Len(h) :
          h[k] = "<" /\ \A m \in (i + 1)..(k - 1) : h[m] # ">"

LimiterPositions == {"idle", "wait", "slot"}

\* C33: every HTTP attempt of doRequest, each retry included, is preceded
\* within that attempt by its own acquisition of a rate limiter slot and then
\* by a getToken call: an attempt (which begins with getToken) is entered
\* only from c.rateLimiter.Wait
C33_LimiterBeforeEveryAttempt ==
    [][\A p \in Callers :
          (pc'[p] = "getToken" /\ pc[p] # "getToken")
              => pc[p] \in LimiterPositions]_vars


\* ---------------------------------------------------------------------------
\* the request handed to doRequest
\* ---------------------------------------------------------------------------

\* C34: doRequest never changes the request it was given (method, headers
\* and body stay as they were before the call), so the clone of every retry
\* is the clone of the first attempt
C34_RequestNeverMutated ==
    [][\A p \in Callers :
          /\ req'[p] = req[p]
          /\ \A k \in DOMAIN clones'[p] : clones'[p][k] = clones'[p][1]]_vars

\* the responses the server has given to the attempts of the call
Responses(p) == {k \in DOMAIN hist[p] : hist[p][k] # TransportError}

\* C38: one call of a POST mutation delivers at most one POST request to the
\* server: the server answers at most one attempt of the call
C38_AtMostOnePostDelivered ==
    \A p \in Callers :
        req[p].method = "POST" => Cardinality(Responses(p)) <= 1


\* ---------------------------------------------------------------------------
\* cursor pagination: from the Link header of one response to the page-token
\* of the next request
\* ---------------------------------------------------------------------------
\* A URL is a sequence of lexical units: the path, "?", and the parameters
\* key "=" value joined by "&". A value is one unit, percent-encoded as it
\* stands in the URL ("a%2Fb" is the encoding of "a/b"; "%zz" is no valid
\* encoding); an empty value has no unit.

\* the parameters a next URL can carry
QueryPairs ==
    {[key |-> "page-token", val |-> "abc"],
     [key |-> "page-token", val |-> "a%2Fb"],
     [key |-> "page-token", val |-> ""],
     [key |-> "page-token", val |-> "%zz"],
     [key |-> "prev-page-token", val |-> "abc"],
     [key |-> "per-page", val |-> "abc"]}

\* the queries a next URL can carry: none, one or two parameters
QueryForms ==
    {<< >>} \cup {<<a>> : a \in QueryPairs}
            \cup {<<a, b>> : a \in QueryPairs, b \in QueryPairs}

\* the next URLs: a path that parses with any query, and a path with an
\* invalid percent-encoding
URLForms ==
    [path : {"/f"}, query : QueryForms]
        \cup {[path |-> "/f%zz",
               query |-> <<[key |-> "page-token", val |-> "abc"]>>]}

\* the Link headers of a response: none, a next link, and a next link whose
\* rel stands after another parameter
LinkHeaderForms ==
    {[next |-> FALSE, extra |-> FALSE, url |-> [path |-> "/f", query |-> << >>]]}
        \cup [next : {TRUE}, extra : {FALSE}, url : URLForms]
        \cup {[next |-> TRUE, extra |-> TRUE,
               url |-> [path |-> "/f",
                        query |-> <<[key |-> "page-token", val |-> "abc"]>>]]}

FormatPair(a) ==
    <<a.key, "=">> \o (IF a.val = "" THEN << >> ELSE <<a.val>>)

RECURSIVE FormatQuery(_)
FormatQuery(q) ==
    IF Len(q) = 1 THEN FormatPair(q[1])
    ELSE FormatPair(q[1]) \o <<"&">> \o FormatQuery(Tail(q))

\* the URL as the server writes it
FormatURL(u) ==
    <<u.path>> \o (IF u.query = << >> THEN << >>
                   ELSE <<"?">> \o FormatQuery(u.query))

\* the Link header as the server writes it
FormatLinkHeader(r) ==
    IF ~r.next THEN << >>
    ELSE <<"<">> \o FormatURL(r.url) \o <<">", ";", " ">>
           \o (IF r.extra THEN <<"title", ";", " ">> ELSE << >>)
           \o <<"next">>

\* the units that are not a valid percent-encoding
BadEscapes == {"%zz", "/f%zz"}

\* url.QueryEscape, unit by unit
QueryEscapeUnit(x) ==
    CASE x = "a/b" -> "a%2Fb"
      [] x = "a%2Fb" -> "a%252Fb"
      [] x = "%zz" -> "%25zz"
      [] x = "/f" -> "%2Ff"
      [] x = "/f%zz" -> "%2Ff%25zz"
      [] x = "?" -> "%3F"
      [] x = "=" -> "%3D"
      [] x = "&" -> "%26"
      [] OTHER -> x

\* url.QueryUnescape, unit by unit (of a unit that is a valid encoding)
QueryUnescapeUnit(x) ==
    CASE x = "a%2Fb" -> "a/b"
      [] x = "a%252Fb" -> "a%2Fb"
      [] x = "%25zz" -> "%zz"
      [] x = "%2Ff" -> "/f"
      [] x = "%2Ff%25zz" -> "/f%zz"
      [] x = "%3F" -> "?"
      [] x = "%3D" -> "="
      [] x = "%26" -> "&"
      [] OTHER -> x

QueryEscape(t) == [i \in 1..Len(t) |-> QueryEscapeUnit(t[i])]

\* url.QueryUnescape: fails on an invalid percent-encoding
QueryUnescape(t) ==
    IF \E i \in 1..Len(t) : t[i] \in BadEscapes
    THEN [ok |-> FALSE, val |-> << >>]
    ELSE [ok |-> TRUE, val |-> [i \in 1..Len(t) |-> QueryUnescapeUnit(t[i])]]

\* the place of the first x in t (0: none)
Index(t, x) ==
    IF \E i \in 1..Len(t) : t[i] = x
    THEN CHOOSE i \in 1..Len(t) : t[i] = x /\ \A k \in 1..(i - 1) : t[k] # x
    ELSE 0

\* strings.Cut(t, sep): before, after
Cut(t, sep) ==
    IF Index(t, sep) = 0 THEN <<t, << >> >>
    ELSE <<SubSeq(t, 1, Index(t, sep) - 1),
           SubSeq(t, Index(t, sep) + 1, Len(t))>>

\* url.ParseQuery, its error dropped as Query() does: the parameters in
\* order, without those whose key or value does not decode
RECURSIVE ParseQuery(_)
ParseQuery(q) ==
    IF q = << >> THEN << >>
    ELSE LET piece == Cut(q, "&")
             kv == Cut(piece[1], "=")
             key == QueryUnescape(kv[1])
             value == QueryUnescape(kv[2])
         IN  (IF piece[1] # << >> /\ key.ok /\ value.ok
              THEN <<[key |-> key.val, val |-> value.val]>> ELSE << >>)
               \o ParseQuery(piece[2])

\* mutation of Get: the last value of the key
GetLast(vs, key) ==
    IF \E i \in 1..Len(vs) : vs[i].key = key
    THEN vs[CHOOSE i \in 1..Len(vs) :
                vs[i].key = key /\ \A k \in (i + 1)..Len(vs) : vs[k].key # key].val
    ELSE << >>

\* url.Values.Get: the first value of the key, or ""
Get(vs, key) ==
    IF \E i \in 1..Len(vs) : vs[i].key = key
    THEN vs[CHOOSE i \in 1..Len(vs) :
                vs[i].key = key /\ \A k \in 1..(i - 1) : vs[k].key # key].val
    ELSE << >>

\* url.Parse: fails when the path has an invalid percent-encoding; the query
\* is kept as it stands
urlParse(t) ==
    [err |-> IF \E i \in 1..Len(Cut(t, "?")[1]) : Cut(t, "?")[1][i] \in BadEscapes
             THEN "invalid URL escape" ELSE "nil",
     RawQuery |-> Cut(t, "?")[2]]

\* the units at whose end "page-token" stands
EndsWithPageToken == {"page-token", "prev-page-token"}

\* strings.Contains(nextToken, "page-token=")
ContainsPageToken(t) ==
    \E i \in 1..(Len(t) - 1) : t[i] \in EndsWithPageToken /\ t[i + 1] = "="

\* the end of the page function: nextToken is what extractNextLink returned
\* or, when that contains "page-token=" and parses as a URL, its page-token
\* parameter
NextTokenOf(h) ==
    LET nextURL == extractNextLink(h).url IN
    IF nextURL # << >> /\ ContainsPageToken(nextURL)
          /\ urlParse(nextURL).err = "nil"
    THEN Get(ParseQuery(urlParse(nextURL).RawQuery), <<"page-token">>)
    ELSE nextURL

\* buildConfigurationFindingsQueryParams and params.Encode(): the query of
\* the page request
buildQueryParams(t) ==
    IF t # << >> THEN <<"page-token", "=">> \o QueryEscape(t) ELSE << >>

\* the server reads the page-token parameter of the request
ServerPageToken(q) == Get(ParseQuery(q), <<"page-token">>)

\* ListConfigurationFindings starts its producer: pageToken := ""
InitCursor ==
    /\ InitCommon
    /\ NoLinkHeader
    /\ NoCandidate
    /\ DefaultLimits
    /\ NoStream
    /\ NoThreatEvents
    /\ MaxRetries = 0
    /\ server = [statuses |-> {}, lifetimes |-> {}]
    /\ active = {}

\* the producer is at the head of its loop
StartCursor ==
    /\ cursor.pc = "idle"
    /\ cursor' = [cursor EXCEPT !.pc = "listPage"]
    /\ UNCHANGED <<links, linkHeader, nextLink>>
    /\ UNCHANGED <<clientVars, ctxDone, streamVars, offsetVars, transportVars,
                   configVars, requestVars>>

\* one turn of the producer loop with a server that answers: the page
\* request with its page-token, the response with its Link header, the
\* nextToken of the page function, and the test that ends the loop
CursorPage ==
    /\ cursor.pc = "listPage"
    /\ Len(cursor.requests) < MaxCursorPages
    /\ \E r \in LinkHeaderForms :
         LET taken == NextTokenOf(FormatLinkHeader(r)) IN
         cursor' =
             [pc |-> IF taken = << >> THEN "done" ELSE "listPage",
              pageToken |-> IF taken = << >> THEN cursor.pageToken
                            ELSE taken,
              requests |-> Append(cursor.requests,
                              ServerPageToken(buildQueryParams(cursor.pageToken))),
              responses |-> Append(cursor.responses, r)]
    /\ UNCHANGED <<links, linkHeader, nextLink>>
    /\ UNCHANGED <<clientVars, ctxDone, streamVars, offsetVars, transportVars,
                   configVars, requestVars>>

NextCursor ==
    \/ StartCursor
    \/ CursorPage

SpecCursor == InitCursor /\ [][NextCursor]_vars

\* ------------------------------------------------ cursor pagination claims

\* the page-token a URL of the server embeds, decoded: the value of its first
\* page-token parameter that decodes, "" when it has none
RECURSIVE EmbeddedToken(_)
EmbeddedToken(q) ==
    IF q = << >> THEN << >>
    ELSE IF q[1].key = "page-token" /\ q[1].val # "%zz"
    THEN (CASE q[1].val = "" -> << >>
            [] q[1].val = "abc" -> <<"abc">>
            [] q[1].val = "a%2Fb" -> <<"a/b">>)
    ELSE EmbeddedToken(Tail(q))

\* the producer has left its loop after response k
EndedAfter(k) == k = Len(cursor.responses) /\ cursor.pc = "done"

PlainNext(r) == r.next /\ ~r.extra

\* the URL has the text page-token= and parses
TokenLookedUp(u) ==
    /\ u.path = "/f"
    /\ \E i \in 1..Len(u.query) : u.query[i].key \in EndsWithPageToken

\* what the producer takes from response k as its next page-token
TokenTaken(r) ==
    IF ~PlainNext(r) THEN << >>
    ELSE IF TokenLookedUp(r.url) THEN EmbeddedToken(r.url.query)
    ELSE FormatURL(r.url)

C36_ResponseXorError ==
    \A p \in Callers :
        pc[p] = "done" =>
            /\ result[p] # NoResult
            /\ (result[p].resp # -1) <=> (result[p].err = "nil")
            /\ result[p].err = "all retries exhausted" =>
                  /\ Len(hist[p]) = MaxRetries + 1
                  /\ hist[p][Len(hist[p])] = TransportError
                  /\ lastErr[p] # "nil"
                  /\ cause[p] # "none"

\* two answered attempts and then a transport error on the last one: the
\* call returns "all retries exhausted" around that error
C36_Witness ==
    /\ MaxRetries = 2
    /\ pc[1] = "done"
    /\ hist[1] = <<ServerErrorFloor, StatusTooManyRequests, TransportError>>
    /\ result[1] = [resp |-> -1, err |-> "all retries exhausted"]
    /\ lastErr[1] = "request failed"


\* C37: whenever doRequest hands a 401 response back to its caller, the
\* cached token that produced it has been invalidated: the token sent in the
\* rejected attempt is no longer the cached one, also when the 401 came on
\* the final attempt
C37_Returned401Invalidated ==
    \A p \in Callers :
        (pc[p] = "done" /\ result[p].resp = StatusUnauthorized)
            => token # tok[p]


\* C40: with concurrent requests on one client, the invalidation that follows
\* a 401 clears only the token that was sent in the rejected attempt: a
\* token another caller has cached in the meantime stays cached
C40_InvalidationKeepsNewerToken ==
    [][\A p \in Callers :
          (pc[p] = "invalidate" /\ pc'[p] # "invalidate" /\ token # tok[p])
              => token' = token]_vars


\* ---------------------------------------------------------------------------
\* termination of the producer of a streaming list
\* ---------------------------------------------------------------------------

\* the producer has returned and its deferred calls have closed both channels
ProducerEnded == prodPc = "done" /\ findingsChClosed /\ errChClosed

\* C39: for a finite page sequence and a server that answers every request,
\* the producer of a streaming list eventually returns and closes the item
\* channel and the error channel, provided the consumer keeps receiving or
\* the context is eventually cancelled
C39_ProducerTerminates ==
    (consumer # "none" \/ <>ctxDone) => <>ProducerEnded

\* nobody receives and the page has one item more than the item channel
\* holds: the producer was blocked in its send, the context was cancelled,
\* and the producer has posted the cancellation and closed both channels
C39_Witness ==
    /\ consumer = "none"
    /\ Len(pages) = 1
    /\ Len(pages[1]) = ItemChanCap + 1
    /\ Len(findingsCh) = ItemChanCap
    /\ ctxDone
    /\ errPosts = <<"context canceled">>
    /\ ProducerEnded

====
